---- MODULE Spec2Model ----
(***************************************************************************)
(* Model of the localization catalog of Rosetta (src/src/xcstrings.rs):    *)
(* the in-memory document XCStringsData, the selector                      *)
(* get_keys_needing_translation and the two mutators add_translation and   *)
(* mark_as_no_translate (Spec); the functions of key_mappings.rs           *)
(* (SpecKeys); get_translation_context (SpecContext); load and save of the *)
(* catalog file (SpecFile); the translate command of main.rs with the      *)
(* loops of ui.rs (SpecRun); translate_text and translate_with_context of  *)
(* translator.rs (SpecTranslate); the settings of the translate command    *)
(* (SpecSettings); the clean command of main.rs (SpecClean).               *)
(*                                                                         *)
(* Rust strings are sequences of one-character strings, so that trim() and *)
(* is_empty() are computed and not assumed.  Option<T> is a set with at    *)
(* most one element: None is {} and Some(x) is {x}.  A HashMap is a        *)
(* function whose DOMAIN is the set of keys present.                       *)
(***************************************************************************)
EXTENDS Naturals, Sequences, FiniteSets

VARIABLES
    data,    \* XCStringsFile::data, the catalog in memory
    call,    \* the method called last, with its arguments
    ret,     \* the value that call returned
    marked,  \* the keys on which mark_as_no_translate has returned Ok
    calls,   \* the number of calls made so far
    pc,      \* the position of the translate command ("idle": none is run)
    args,    \* the arguments of the translate command
    disk,    \* the catalog file at the path of the command
    backups, \* the backup files written, in the order they were written
    selected, \* the keys the command selected
    results, \* the results collected by batch_translate_keys
    exit,    \* the value the command returned
    current, \* the index of interactive_translate in the selected keys
    batch,   \* the keys batch_translate_keys was called with
    asked    \* the keys the translator was called for, in the order of the calls

runvars ==
    <<pc, args, disk, backups, selected, results, exit, current, batch, asked>>

vars == <<data, call, ret, marked, calls, pc, args, disk, backups, selected,
          results, exit, current, batch, asked>>

----------------------------------------------------------------------------
(* Bounds of the model *)

\* number of calls made on the catalog in a run
MaxCalls == 2
\* number of entries of the catalog that is loaded
MaxEntries == 2
\* number of fragments a key given to key_mappings is made of
MaxFragments == 2
\* number of characters of the content of a response of the endpoint
MaxContent == 3

----------------------------------------------------------------------------
(* Option<T> and strings *)

None == {}
Some(x) == {x}
Unwrap(o) == CHOOSE x \in o : TRUE

Whitespace == {" "}

RECURSIVE trim_start(_)
trim_start(s) ==
    IF s = << >> THEN << >>
    ELSE IF Head(s) \in Whitespace THEN trim_start(Tail(s))
    ELSE s

RECURSIVE trim_end(_)
trim_end(s) ==
    IF s = << >> THEN << >>
    ELSE IF s[Len(s)] \in Whitespace THEN trim_end(SubSeq(s, 1, Len(s) - 1))
    ELSE s

trim(s) == trim_end(trim_start(s))

is_empty(s) == Len(s) = 0

----------------------------------------------------------------------------
(* Inputs: the keys, languages and texts the operations are called with *)

KeyPool == { <<" ">>, <<"h", "i">>, <<" ", "x">> }
Langs == {"en", "ja"}
Texts == { << >>, <<"b">> }
Modes == {"Supplement", "Fresh"}

----------------------------------------------------------------------------
(* The data types of the catalog *)

StringUnit(state, value) == [state |-> state, value |-> value]

Localization(string_unit, should_translate) ==
    [string_unit |-> string_unit, should_translate |-> should_translate]

LocalizationEntry(comment, should_translate, localizations) ==
    [comment |-> comment, should_translate |-> should_translate,
     localizations |-> localizations]

XCStringsData(source_language, version, strings) ==
    [source_language |-> source_language, version |-> version,
     strings |-> strings]

\* HashMap::insert / assignment through get_mut
Put(map, k, v) == [x \in DOMAIN map \cup {k} |-> IF x = k THEN v ELSE map[x]]

----------------------------------------------------------------------------
(* The catalogs a run can start from (the result of load) *)

InitStringUnits ==
    { None,
      Some(StringUnit("new", << >>)),
      Some(StringUnit("translated", <<"a">>)) }

InitFlags == { None, Some(TRUE), Some(FALSE) }

InitLocalizations ==
    { Localization(u, f) : u \in InitStringUnits, f \in InitFlags }

InitLocalizationMaps ==
    UNION { [ls -> InitLocalizations] : ls \in SUBSET Langs }

\* the entry of the catalogs that hold one entry: every combination of flags
\* and string units over the languages (without comment)
InitEntries ==
    { LocalizationEntry(None, f, m) :
        f \in InitFlags, m \in InitLocalizationMaps }

\* the entries of the catalogs that hold more than one entry: a key that
\* needs a translation, a translated key, a key excluded by the entry's flag
\* and a key excluded by the flag of one localization
SharedEntries ==
    { LocalizationEntry(Some(<<"c">>), None,
        [l \in {"en"} |->
            Localization(Some(StringUnit("translated", <<"a">>)), None)]),
      LocalizationEntry(None, None,
        [l \in {"en", "ja"} |->
            Localization(Some(StringUnit("translated", <<"a">>)), None)]),
      LocalizationEntry(None, Some(FALSE),
        [l \in {"en"} |->
            Localization(Some(StringUnit("translated", <<"a">>)), None)]),
      LocalizationEntry(None, Some(TRUE),
        [l \in {"en", "ja"} |->
            IF l = "en"
            THEN Localization(Some(StringUnit("translated", <<"a">>)), None)
            ELSE Localization(Some(StringUnit("new", << >>)), Some(FALSE))]) }

KeySets(lo, hi) ==
    { S \in SUBSET KeyPool : Cardinality(S) >= lo /\ Cardinality(S) <= hi }

InitStrings ==
    UNION ( { [ks -> InitEntries] : ks \in KeySets(0, 1) }
            \cup { [ks -> SharedEntries] : ks \in KeySets(2, MaxEntries) } )

InitDocs == { XCStringsData("en", "1.0", s) : s \in InitStrings }

----------------------------------------------------------------------------
(* XCStringsFile::get_keys_needing_translation *)

\* slip: the loop over the localizations is left out
is_marked_entry_flag_only(entry) ==
    entry.should_translate = Some(FALSE)

is_marked_no_translate_globally(entry) ==
    IF entry.should_translate = Some(FALSE) THEN TRUE
    ELSE \E lang \in DOMAIN entry.localizations :
            entry.localizations[lang].should_translate = Some(FALSE)

\* slip: a localization without string unit counts as translated
\* (unwrap_or(false))
target_missing_unit_required(entry, target_language) ==
    \/ target_language \notin DOMAIN entry.localizations
    \/ LET loc == entry.localizations[target_language]
       IN  IF loc.string_unit = None THEN FALSE
           ELSE is_empty(Unwrap(loc.string_unit).value)

\* slip: the test of the value is inverted (a key counts as missing when its
\* value is not empty)
target_missing_value_inverted(entry, target_language) ==
    \/ target_language \notin DOMAIN entry.localizations
    \/ LET loc == entry.localizations[target_language]
       IN  IF loc.string_unit = None THEN TRUE
           ELSE ~is_empty(Unwrap(loc.string_unit).value)

\* the condition of the Supplement arm
target_missing(entry, target_language) ==
    \/ target_language \notin DOMAIN entry.localizations
    \/ LET loc == entry.localizations[target_language]
       IN  IF loc.string_unit = None THEN TRUE
           ELSE is_empty(Unwrap(loc.string_unit).value)

\* slip: the Fresh arm filters on the target language like the Supplement arm
pushes_key_fresh_filtered(key, entry, target_language, mode) ==
    IF is_empty(trim(key)) THEN FALSE
    ELSE IF entry.should_translate = Some(FALSE) THEN FALSE
    ELSE IF is_marked_no_translate_globally(entry) THEN FALSE
    ELSE target_missing(entry, target_language)

\* slip: the should_translate checks are made in the Fresh arm only
pushes_key_flags_in_fresh_only(key, entry, target_language, mode) ==
    IF is_empty(trim(key)) THEN FALSE
    ELSE IF mode = "Supplement" THEN target_missing(entry, target_language)
    ELSE IF entry.should_translate = Some(FALSE) THEN FALSE
    ELSE IF is_marked_no_translate_globally(entry) THEN FALSE
    ELSE TRUE

\* one iteration of the for loop: does the body push the key
pushes_key(key, entry, target_language, mode) ==
    IF is_empty(trim(key)) THEN FALSE
    ELSE IF entry.should_translate = Some(FALSE) THEN FALSE
    ELSE IF is_marked_no_translate_globally(entry) THEN FALSE
    ELSE IF mode = "Supplement" THEN target_missing(entry, target_language)
    ELSE TRUE

\* the for loop over the HashMap, in the map's iteration order
RECURSIVE keys_loop(_, _, _, _, _)
keys_loop(strings, todo, target_language, mode, keys) ==
    IF todo = {} THEN keys
    ELSE LET key == CHOOSE k \in todo : TRUE
         IN  keys_loop(strings, todo \ {key}, target_language, mode,
                       IF pushes_key(key, strings[key], target_language, mode)
                       THEN Append(keys, key) ELSE keys)

get_keys_needing_translation(d, target_language, mode) ==
    keys_loop(d.strings, DOMAIN d.strings, target_language, mode, << >>)

Range(seq) == { seq[i] : i \in 1..Len(seq) }

----------------------------------------------------------------------------
(* XCStringsFile::add_translation and XCStringsFile::mark_as_no_translate *)

Ok(d, v) == [ok |-> TRUE, val |-> v, data |-> d]
Err(d, e) == [ok |-> FALSE, err |-> e, data |-> d]

TranslationFailed(msg) == [kind |-> "TranslationFailed", msg |-> msg]

\* format!("Key not found: {}", key)
KeyNotFound(key) == <<"Key not found: ">> \o key

\* slip: the localization is replaced by a new one, its flag is lost
add_translation_new_localization(d, key, target_language, translation) ==
    IF key \notin DOMAIN d.strings
    THEN Err(d, TranslationFailed(KeyNotFound(key)))
    ELSE LET entry == d.strings[key]
             localization ==
                 Localization(Some(StringUnit("translated", translation)), None)
             entry1 == [entry EXCEPT
                          !.localizations = Put(entry.localizations,
                                                target_language, localization)]
         IN  Ok([d EXCEPT !.strings = Put(d.strings, key, entry1)], "unit")

\* slip: the map of localizations is replaced by one that holds the target only
add_translation_single_language(d, key, target_language, translation) ==
    IF key \notin DOMAIN d.strings
    THEN Err(d, TranslationFailed(KeyNotFound(key)))
    ELSE LET entry == d.strings[key]
             locs0 == entry.localizations
             flag == IF target_language \in DOMAIN locs0
                     THEN locs0[target_language].should_translate ELSE None
             localization ==
                 Localization(Some(StringUnit("translated", translation)), flag)
             entry1 == [entry EXCEPT
                          !.localizations =
                              [l \in {target_language} |-> localization]]
         IN  Ok([d EXCEPT !.strings = Put(d.strings, key, entry1)], "unit")

\* slip: the string unit is set in an else branch, so the call that creates
\* the localization leaves it without string unit
add_translation_insert_or_set(d, key, target_language, translation) ==
    IF key \notin DOMAIN d.strings
    THEN Err(d, TranslationFailed(KeyNotFound(key)))
    ELSE LET entry == d.strings[key]
             locs0 == entry.localizations
             locs1 == IF target_language \notin DOMAIN locs0
                      THEN Put(locs0, target_language, Localization(None, None))
                      ELSE Put(locs0, target_language,
                               [locs0[target_language] EXCEPT
                                  !.string_unit =
                                      Some(StringUnit("translated", translation))])
             entry1 == [entry EXCEPT !.localizations = locs1]
         IN  Ok([d EXCEPT !.strings = Put(d.strings, key, entry1)], "unit")

\* slip: the entry is rebuilt and its should_translate is not carried over
add_translation_entry_rebuilt(d, key, target_language, translation) ==
    IF key \notin DOMAIN d.strings
    THEN Err(d, TranslationFailed(KeyNotFound(key)))
    ELSE LET entry == d.strings[key]
             locs0 == entry.localizations
             locs1 == IF target_language \notin DOMAIN locs0
                      THEN Put(locs0, target_language, Localization(None, None))
                      ELSE locs0
             localization ==
                 [locs1[target_language] EXCEPT
                    !.string_unit = Some(StringUnit("translated", translation))]
             entry1 == LocalizationEntry(entry.comment, None,
                           Put(locs1, target_language, localization))
         IN  Ok([d EXCEPT !.strings = Put(d.strings, key, entry1)], "unit")

add_translation(d, key, target_language, translation) ==
    IF key \notin DOMAIN d.strings
    THEN Err(d, TranslationFailed(KeyNotFound(key)))
    ELSE LET entry == d.strings[key]
             locs0 == entry.localizations
             locs1 == IF target_language \notin DOMAIN locs0
                      THEN Put(locs0, target_language, Localization(None, None))
                      ELSE locs0
             localization ==
                 [locs1[target_language] EXCEPT
                    !.string_unit = Some(StringUnit("translated", translation))]
             entry1 == [entry EXCEPT
                          !.localizations = Put(locs1, target_language, localization)]
         IN  Ok([d EXCEPT !.strings = Put(d.strings, key, entry1)], "unit")

\* slip: entry(key).or_insert_with(..) in place of get_mut(key).ok_or_else(..)
mark_as_no_translate_or_insert(d, key) ==
    LET entry == IF key \in DOMAIN d.strings THEN d.strings[key]
                 ELSE LocalizationEntry(None, None, << >>)
        entry1 == [entry EXCEPT !.should_translate = Some(FALSE)]
    IN  Ok([d EXCEPT !.strings = Put(d.strings, key, entry1)], "unit")

\* slip: the flag is also written to every localization of the entry
mark_as_no_translate_all_levels(d, key) ==
    IF key \notin DOMAIN d.strings
    THEN Err(d, TranslationFailed(KeyNotFound(key)))
    ELSE LET entry == d.strings[key]
             entry1 == [entry EXCEPT
                          !.should_translate = Some(FALSE),
                          !.localizations =
                              [l \in DOMAIN entry.localizations |->
                                  [entry.localizations[l] EXCEPT
                                     !.should_translate = Some(FALSE)]]]
         IN  Ok([d EXCEPT !.strings = Put(d.strings, key, entry1)], "unit")

mark_as_no_translate(d, key) ==
    IF key \notin DOMAIN d.strings
    THEN Err(d, TranslationFailed(KeyNotFound(key)))
    ELSE LET entry1 == [d.strings[key] EXCEPT !.should_translate = Some(FALSE)]
         IN  Ok([d EXCEPT !.strings = Put(d.strings, key, entry1)], "unit")

----------------------------------------------------------------------------
(* The state machine: a loaded catalog and the calls made on it *)

\* no translate command is run: the methods are called on a loaded catalog
RunIdle ==
    /\ pc = "idle"
    /\ args = << >>
    /\ disk = << >>
    /\ backups = << >>
    /\ selected = << >>
    /\ results = << >>
    /\ exit = << >>
    /\ current = 0
    /\ batch = << >>
    /\ asked = << >>

Init ==
    /\ data \in InitDocs
    /\ call = [op |-> "load"]
    /\ ret = [ok |-> TRUE, val |-> "unit"]
    /\ marked = {}
    /\ calls = 0
    /\ RunIdle

GetKeysNeedingTranslation ==
    \E target_language \in Langs, mode \in Modes :
        /\ calls < MaxCalls
        /\ calls' = calls + 1
        /\ call' = [op |-> "get_keys_needing_translation",
                    target_language |-> target_language, mode |-> mode]
        /\ ret' = [ok |-> TRUE,
                   val |-> get_keys_needing_translation(data, target_language, mode)]
        /\ UNCHANGED <<data, marked>>
        /\ UNCHANGED runvars

AddTranslation ==
    \E key \in KeyPool, target_language \in Langs, translation \in Texts :
        LET r == add_translation(data, key, target_language, translation)
        IN  /\ calls < MaxCalls
            /\ calls' = calls + 1
            /\ call' = [op |-> "add_translation", key |-> key,
                        target_language |-> target_language,
                        translation |-> translation]
            /\ data' = r.data
            /\ ret' = IF r.ok THEN [ok |-> TRUE, val |-> r.val]
                      ELSE [ok |-> FALSE, err |-> r.err]
            /\ UNCHANGED marked
            /\ UNCHANGED runvars

MarkAsNoTranslate ==
    \E key \in KeyPool :
        LET r == mark_as_no_translate(data, key)
        IN  /\ calls < MaxCalls
            /\ calls' = calls + 1
            /\ call' = [op |-> "mark_as_no_translate", key |-> key]
            /\ data' = r.data
            /\ ret' = IF r.ok THEN [ok |-> TRUE, val |-> r.val]
                      ELSE [ok |-> FALSE, err |-> r.err]
            /\ marked' = IF r.ok THEN marked \cup {key} ELSE marked
            /\ UNCHANGED runvars

Next ==
    \/ GetKeysNeedingTranslation
    \/ AddTranslation
    \/ MarkAsNoTranslate

Spec == Init /\ [][Next]_vars

TypeOK ==
    /\ DOMAIN data.strings \subseteq KeyPool
    /\ calls \in 0..MaxCalls
    /\ marked \subseteq DOMAIN data.strings

----------------------------------------------------------------------------
(* key_mappings.rs: infer_key_meaning and categorize_usage                 *)
(*                                                                         *)
(* The meanings of the source are Chinese texts; each is written here as   *)
(* an ASCII gloss, one gloss per text of the source.                       *)

\* a string literal as a sequence of one-character strings
Chars(str) == [i \in 1..Len(str) |-> SubSeq(str, i, i)]

UpperCase == Chars("ABCDEFGHIJKLMNOPQRSTUVWXYZ")
LowerCase == Chars("abcdefghijklmnopqrstuvwxyz")

\* char::to_lowercase on the ASCII letters
lower_char(c) ==
    IF \E i \in 1..Len(UpperCase) : UpperCase[i] = c
    THEN LowerCase[CHOOSE i \in 1..Len(UpperCase) : UpperCase[i] = c]
    ELSE c

\* str::to_lowercase
to_lowercase(s) == [i \in 1..Len(s) |-> lower_char(s[i])]

\* str::contains and str::starts_with, the pattern given as a literal
contains(s, pat) ==
    \E i \in 1..(Len(s) + 1) :
        /\ i + Len(pat) - 1 <= Len(s)
        /\ SubSeq(s, i, i + Len(pat) - 1) = Chars(pat)

starts_with(s, pat) ==
    /\ Len(pat) <= Len(s)
    /\ SubSeq(s, 1, Len(pat)) = Chars(pat)

\* the entries of KEY_MEANINGS, as <<key, meaning>>
KeyMeaningEntries ==
    { <<"CFBundleDisplayName", "name of the app on the home screen">>,
      <<"CFBundleName", "name of the app bundle">>,
      <<"CFBundleShortVersionString", "version of the app">>,
      <<"CFBundleVersion", "build version of the app">>,
      <<"NSCameraUsageDescription", "camera permission">>,
      <<"NSPhotoLibraryUsageDescription", "photo library permission">>,
      <<"NSPhotoLibraryAddUsageDescription", "add to photo album permission">>,
      <<"NSMicrophoneUsageDescription", "microphone permission">>,
      <<"NSLocationWhenInUseUsageDescription", "location when in use permission">>,
      <<"NSLocationAlwaysUsageDescription", "location always permission">>,
      <<"NSLocationAlwaysAndWhenInUseUsageDescription", "location permission">>,
      <<"NSContactsUsageDescription", "contacts permission">>,
      <<"NSCalendarsUsageDescription", "calendars permission">>,
      <<"NSRemindersUsageDescription", "reminders permission">>,
      <<"NSMotionUsageDescription", "motion and fitness permission">>,
      <<"NSHealthShareUsageDescription", "health data read permission">>,
      <<"NSHealthUpdateUsageDescription", "health data write permission">>,
      <<"NSBluetoothPeripheralUsageDescription", "bluetooth peripheral permission">>,
      <<"NSBluetoothAlwaysUsageDescription", "bluetooth permission">>,
      <<"NSAppleMusicUsageDescription", "Apple Music permission">>,
      <<"NSSpeechRecognitionUsageDescription", "speech recognition permission">>,
      <<"NSVideoSubscriberAccountUsageDescription", "video subscriber account permission">>,
      <<"NSNetworkVolumesUsageDescription", "network volumes permission">>,
      <<"NSDesktopFolderUsageDescription", "desktop folder permission">>,
      <<"NSDocumentsFolderUsageDescription", "documents folder permission">>,
      <<"NSDownloadsFolderUsageDescription", "downloads folder permission">>,
      <<"NSRemovableVolumesUsageDescription", "removable volumes permission">>,
      <<"CFBundleDisplayName_widget", "display name of the widget">>,
      <<"widget_description", "description of the widget">>,
      <<"widget_configuration_intent_response", "configuration response of the widget">>,
      <<"APP_STORE_DESCRIPTION", "App Store description">>,
      <<"APP_STORE_KEYWORDS", "App Store keywords">>,
      <<"APP_STORE_RELEASE_NOTES", "App Store release notes">> }

KEY_MEANINGS ==
    [key \in { Chars(e[1]) : e \in KeyMeaningEntries } |->
        (CHOOSE e \in KeyMeaningEntries : Chars(e[1]) = key)[2]]

\* slip: the widget rule is tested before the bundle prefix rule
infer_key_meaning_widget_first(key) ==
    IF key \in DOMAIN KEY_MEANINGS THEN Some(KEY_MEANINGS[key])
    ELSE LET key_lower == to_lowercase(key)
         IN  IF contains(key_lower, "usagedescription")
             THEN Some("privacy permission description")
             ELSE IF contains(key_lower, "widget")
             THEN Some("widget configuration")
             ELSE IF starts_with(key_lower, "cfbundle")
             THEN Some("app bundle configuration")
             ELSE IF contains(key_lower, "config") \/ contains(key_lower, "setting")
             THEN Some("configuration setting")
             ELSE IF contains(key_lower, "error") \/ contains(key_lower, "fail")
             THEN Some("error message")
             ELSE IF contains(key_lower, "success") \/ contains(key_lower, "complete")
             THEN Some("success message")
             ELSE IF contains(key_lower, "button") \/ contains(key_lower, "btn")
             THEN Some("button label")
             ELSE IF \/ contains(key_lower, "alert")
                     \/ contains(key_lower, "dialog")
                     \/ contains(key_lower, "message")
             THEN Some("prompt message")
             ELSE IF \/ contains(key_lower, "nav")
                     \/ contains(key_lower, "tab")
                     \/ contains(key_lower, "menu")
             THEN Some("navigation menu")
             ELSE None

infer_key_meaning(key) ==
    IF key \in DOMAIN KEY_MEANINGS THEN Some(KEY_MEANINGS[key])
    ELSE LET key_lower == to_lowercase(key)
         IN  IF contains(key_lower, "usagedescription")
             THEN Some("privacy permission description")
             ELSE IF starts_with(key_lower, "cfbundle")
             THEN Some("app bundle configuration")
             ELSE IF contains(key_lower, "widget")
             THEN Some("widget configuration")
             ELSE IF contains(key_lower, "config") \/ contains(key_lower, "setting")
             THEN Some("configuration setting")
             ELSE IF contains(key_lower, "error") \/ contains(key_lower, "fail")
             THEN Some("error message")
             ELSE IF contains(key_lower, "success") \/ contains(key_lower, "complete")
             THEN Some("success message")
             ELSE IF contains(key_lower, "button") \/ contains(key_lower, "btn")
             THEN Some("button label")
             ELSE IF \/ contains(key_lower, "alert")
                     \/ contains(key_lower, "dialog")
                     \/ contains(key_lower, "message")
             THEN Some("prompt message")
             ELSE IF \/ contains(key_lower, "nav")
                     \/ contains(key_lower, "tab")
                     \/ contains(key_lower, "menu")
             THEN Some("navigation menu")
             ELSE None

\* slip: a key that matches no rule gets a category only when a meaning was
\* inferred for it
categorize_usage_needs_meaning(key, meaning) ==
    LET key_lower == to_lowercase(key)
    IN  IF contains(key_lower, "usagedescription") \/ starts_with(key_lower, "ns")
        THEN Some("system_permission")
        ELSE IF starts_with(key_lower, "cfbundle") THEN Some("app_metadata")
        ELSE IF contains(key_lower, "widget") THEN Some("widget_ui")
        ELSE IF contains(key_lower, "button") \/ contains(key_lower, "label")
        THEN Some("ui_element")
        ELSE IF contains(key_lower, "error") \/ contains(key_lower, "alert")
        THEN Some("user_message")
        ELSE IF meaning = None THEN None
        ELSE Some("general")

categorize_usage(key, meaning) ==
    LET key_lower == to_lowercase(key)
    IN  IF contains(key_lower, "usagedescription") \/ starts_with(key_lower, "ns")
        THEN Some("system_permission")
        ELSE IF starts_with(key_lower, "cfbundle") THEN Some("app_metadata")
        ELSE IF contains(key_lower, "widget") THEN Some("widget_ui")
        ELSE IF contains(key_lower, "button") \/ contains(key_lower, "label")
        THEN Some("ui_element")
        ELSE IF contains(key_lower, "error") \/ contains(key_lower, "alert")
        THEN Some("user_message")
        ELSE Some("general")

----------------------------------------------------------------------------
(* The functions of key_mappings.rs called on keys *)

\* the words the rules look for, in the case a key would have them, and
\* fragments that no rule looks for
Fragments ==
    { "CFBundle", "NS", "UsageDescription", "Widget", "config", "Setting",
      "error", "fail", "success", "complete", "button", "btn", "alert",
      "dialog", "message", "nav", "tab", "menu", "label", "x" }

RECURSIVE Concat(_)
Concat(fs) == IF fs = << >> THEN << >> ELSE Chars(Head(fs)) \o Concat(Tail(fs))

\* the keys of the table and the keys made of at most MaxFragments fragments
MappingKeys ==
    DOMAIN KEY_MEANINGS
    \cup { Concat(fs) : fs \in UNION { [1..n -> Fragments] : n \in 0..MaxFragments } }

\* the meanings categorize_usage is called with: none, the inferred one, another
Meanings(key) == { None, infer_key_meaning(key), Some("another meaning") }

\* the key of the call is drawn at the start; one function is applied to it
InitKeys ==
    /\ data = << >>
    /\ call \in { [op |-> "none", key |-> key] : key \in MappingKeys }
    /\ ret = [ok |-> TRUE, val |-> "unit"]
    /\ marked = {}
    /\ calls = 0
    /\ RunIdle

InferKeyMeaning ==
    LET key == call.key IN
        /\ call.op = "none"
        /\ call' = [op |-> "infer_key_meaning", key |-> key]
        /\ ret' = [ok |-> TRUE, val |-> infer_key_meaning(key)]
        /\ UNCHANGED <<data, marked, calls>>
        /\ UNCHANGED runvars

CategorizeUsage ==
    LET key == call.key IN
        \E meaning \in Meanings(key) :
            /\ call.op = "none"
            /\ call' = [op |-> "categorize_usage", key |-> key, meaning |-> meaning]
            /\ ret' = [ok |-> TRUE, val |-> categorize_usage(key, meaning)]
            /\ UNCHANGED <<data, marked, calls>>
            /\ UNCHANGED runvars

NextKeys ==
    \/ InferKeyMeaning
    \/ CategorizeUsage

SpecKeys == InitKeys /\ [][NextKeys]_vars

----------------------------------------------------------------------------
(* XCStringsFile::get_translation_context *)

\* slip: the value of the source language is taken when it is not empty,
\* without trimming it
get_translation_context_untrimmed(d, key, source_language) ==
    IF key \notin DOMAIN d.strings THEN None
    ELSE LET entry == d.strings[key]
             locs == entry.localizations
             source_value ==
                 IF source_language \notin DOMAIN locs THEN None
                 ELSE IF locs[source_language].string_unit = None THEN None
                 ELSE Some(Unwrap(locs[source_language].string_unit).value)
             source_text ==
                 IF source_value # None /\ ~is_empty(Unwrap(source_value))
                 THEN Unwrap(source_value) ELSE key
             langs == { lang \in DOMAIN locs :
                          /\ lang # source_language
                          /\ locs[lang].string_unit # None
                          /\ ~is_empty(trim(Unwrap(locs[lang].string_unit).value)) }
             key_meaning == infer_key_meaning(key)
         IN  Some([key |-> key,
                   key_meaning |-> key_meaning,
                   comment |-> entry.comment,
                   source_text |-> source_text,
                   existing_translations |->
                       [lang \in langs |-> Unwrap(locs[lang].string_unit).value],
                   usage_category |-> categorize_usage(key, key_meaning)])

\* slip: the test lang != source_language is left out
get_translation_context_all_languages(d, key, source_language) ==
    IF key \notin DOMAIN d.strings THEN None
    ELSE LET entry == d.strings[key]
             locs == entry.localizations
             source_value ==
                 IF source_language \notin DOMAIN locs THEN None
                 ELSE IF locs[source_language].string_unit = None THEN None
                 ELSE Some(Unwrap(locs[source_language].string_unit).value)
             source_text ==
                 IF source_value # None /\ ~is_empty(trim(Unwrap(source_value)))
                 THEN Unwrap(source_value) ELSE key
             langs == { lang \in DOMAIN locs :
                          /\ locs[lang].string_unit # None
                          /\ ~is_empty(trim(Unwrap(locs[lang].string_unit).value)) }
             key_meaning == infer_key_meaning(key)
         IN  Some([key |-> key,
                   key_meaning |-> key_meaning,
                   comment |-> entry.comment,
                   source_text |-> source_text,
                   existing_translations |->
                       [lang \in langs |-> Unwrap(locs[lang].string_unit).value],
                   usage_category |-> categorize_usage(key, key_meaning)])

get_translation_context(d, key, source_language) ==
    IF key \notin DOMAIN d.strings THEN None
    ELSE LET entry == d.strings[key]
             locs == entry.localizations
             \* .get(source_language).and_then(string_unit).map(value)
             source_value ==
                 IF source_language \notin DOMAIN locs THEN None
                 ELSE IF locs[source_language].string_unit = None THEN None
                 ELSE Some(Unwrap(locs[source_language].string_unit).value)
             \* .filter(|v| !v.trim().is_empty()).unwrap_or_else(|| key)
             source_text ==
                 IF source_value # None /\ ~is_empty(trim(Unwrap(source_value)))
                 THEN Unwrap(source_value) ELSE key
             \* the languages the loop inserts into existing_translations
             langs == { lang \in DOMAIN locs :
                          /\ lang # source_language
                          /\ locs[lang].string_unit # None
                          /\ ~is_empty(trim(Unwrap(locs[lang].string_unit).value)) }
             key_meaning == infer_key_meaning(key)
         IN  Some([key |-> key,
                   key_meaning |-> key_meaning,
                   comment |-> entry.comment,
                   source_text |-> source_text,
                   existing_translations |->
                       [lang \in langs |-> Unwrap(locs[lang].string_unit).value],
                   usage_category |-> categorize_usage(key, key_meaning)])

----------------------------------------------------------------------------
(* The context extractor called on a loaded catalog *)

ContextLangs == Langs \cup {"fr"}

\* values that are empty, blank, plain and padded
ContextValues == { << >>, <<" ">>, <<"a">>, <<" ", "a">> }

ContextLocalizations ==
    { Localization(None, None) }
    \cup { Localization(Some(StringUnit("translated", v)), None) :
             v \in ContextValues }

ContextEntries ==
    { LocalizationEntry(c, None, m) :
        c \in { None, Some(<<"c">>) },
        m \in UNION { [ls -> ContextLocalizations] : ls \in SUBSET ContextLangs } }

ContextDocs ==
    { XCStringsData("en", "1.0", [k \in {key} |-> e]) :
        key \in KeyPool, e \in ContextEntries }

InitContext ==
    /\ data \in ContextDocs
    /\ call = [op |-> "load"]
    /\ ret = [ok |-> TRUE, val |-> "unit"]
    /\ marked = {}
    /\ calls = 0
    /\ RunIdle

GetTranslationContext ==
    \E key \in KeyPool, source_language \in ContextLangs :
        /\ call' = [op |-> "get_translation_context", key |-> key,
                    source_language |-> source_language]
        /\ ret' = [ok |-> TRUE,
                   val |-> get_translation_context(data, key, source_language)]
        /\ UNCHANGED <<data, marked, calls>>
        /\ UNCHANGED runvars

NextContext == GetTranslationContext

SpecContext == InitContext /\ [][NextContext]_vars

----------------------------------------------------------------------------
(* The catalog file: serde_json values, the derived Serialize and          *)
(* Deserialize of the data types, XCStringsFile::load and save             *)
(*                                                                         *)
(* The content of a file is the JSON value its text denotes, or NotJson    *)
(* when the text is not JSON.  An object is a function from its member     *)
(* names to values, so that the order of the members does not exist.       *)

JNull == [t |-> "null"]
JBool(b) == [t |-> "bool", v |-> b]
JString(s) == [t |-> "string", v |-> s]
JObject(m) == [t |-> "object", v |-> m]
NotJson == [t |-> "invalid"]

\* an object made of a set of <<name, value>> members
Members(ms) ==
    [n \in { m[1] : m \in ms } |-> (CHOOSE m \in ms : m[1] = n)[2]]

\* a member that skip_serializing_if = "Option::is_none" leaves out
SkipNone(name, o, value) == IF o = None THEN {} ELSE { <<name, value>> }

serialize_StringUnit(u) ==
    JObject(Members({ <<"state", JString(u.state)>>,
                      <<"value", JString(u.value)>> }))

serialize_Localization(l) ==
    JObject(Members(
        SkipNone("stringUnit", l.string_unit,
                 serialize_StringUnit(Unwrap(l.string_unit)))
        \cup SkipNone("shouldTranslate", l.should_translate,
                      JBool(Unwrap(l.should_translate)))))

serialize_LocalizationEntry(e) ==
    JObject(Members(
        SkipNone("comment", e.comment, JString(Unwrap(e.comment)))
        \cup SkipNone("shouldTranslate", e.should_translate,
                      JBool(Unwrap(e.should_translate)))
        \cup IF DOMAIN e.localizations = {} THEN {}
             ELSE { <<"localizations",
                      JObject([l \in DOMAIN e.localizations |->
                          serialize_Localization(e.localizations[l])])>> }))

serialize_XCStringsData(d) ==
    JObject(Members({
        <<"sourceLanguage", JString(d.source_language)>>,
        <<"version", JString(d.version)>>,
        <<"strings", JObject([k \in DOMAIN d.strings |->
                         serialize_LocalizationEntry(d.strings[k])])>> }))

\* the result of a Deserialize
Parsed(x) == [ok |-> TRUE, val |-> x]
Invalid == [ok |-> FALSE]

IsObject(j) == j.t = "object"
Has(j, name) == name \in DOMAIN j.v

\* a required String member
deserialize_String(j, name) ==
    IF Has(j, name) /\ j.v[name].t = "string"
    THEN Parsed(j.v[name].v) ELSE Invalid

\* an Option<String> member: missing and null are None
deserialize_OptionString(j, name) ==
    IF ~Has(j, name) \/ j.v[name].t = "null" THEN Parsed(None)
    ELSE IF j.v[name].t = "string" THEN Parsed(Some(j.v[name].v))
    ELSE Invalid

\* an Option<bool> member: missing and null are None
deserialize_OptionBool(j, name) ==
    IF ~Has(j, name) \/ j.v[name].t = "null" THEN Parsed(None)
    ELSE IF j.v[name].t = "bool" THEN Parsed(Some(j.v[name].v))
    ELSE Invalid

deserialize_StringUnit(j) ==
    IF ~IsObject(j) THEN Invalid
    ELSE LET state == deserialize_String(j, "state")
             value == deserialize_String(j, "value")
         IN  IF state.ok /\ value.ok
             THEN Parsed(StringUnit(state.val, value.val))
             ELSE Invalid

deserialize_Localization(j) ==
    IF ~IsObject(j) THEN Invalid
    ELSE LET string_unit ==
                 IF ~Has(j, "stringUnit") \/ j.v["stringUnit"].t = "null"
                 THEN Parsed(None)
                 ELSE LET u == deserialize_StringUnit(j.v["stringUnit"])
                      IN  IF u.ok THEN Parsed(Some(u.val)) ELSE Invalid
             should_translate == deserialize_OptionBool(j, "shouldTranslate")
         IN  IF string_unit.ok /\ should_translate.ok
             THEN Parsed(Localization(string_unit.val, should_translate.val))
             ELSE Invalid

\* localizations: HashMap<String, Localization>
deserialize_Localizations(j) ==
    IF ~IsObject(j) THEN Invalid
    ELSE IF \A l \in DOMAIN j.v : deserialize_Localization(j.v[l]).ok
    THEN Parsed([l \in DOMAIN j.v |-> deserialize_Localization(j.v[l]).val])
    ELSE Invalid

\* slip: localizations without serde(default), a missing member is an error
deserialize_LocalizationEntry_no_default(j) ==
    IF ~IsObject(j) THEN Invalid
    ELSE LET comment == deserialize_OptionString(j, "comment")
             should_translate == deserialize_OptionBool(j, "shouldTranslate")
             localizations ==
                 IF ~Has(j, "localizations") THEN Invalid
                 ELSE deserialize_Localizations(j.v["localizations"])
         IN  IF comment.ok /\ should_translate.ok /\ localizations.ok
             THEN Parsed(LocalizationEntry(comment.val, should_translate.val,
                                           localizations.val))
             ELSE Invalid

deserialize_LocalizationEntry(j) ==
    IF ~IsObject(j) THEN Invalid
    ELSE LET comment == deserialize_OptionString(j, "comment")
             should_translate == deserialize_OptionBool(j, "shouldTranslate")
             localizations ==
                 IF ~Has(j, "localizations") THEN Parsed(<< >>)
                 ELSE deserialize_Localizations(j.v["localizations"])
         IN  IF comment.ok /\ should_translate.ok /\ localizations.ok
             THEN Parsed(LocalizationEntry(comment.val, should_translate.val,
                                           localizations.val))
             ELSE Invalid

\* strings: HashMap<String, LocalizationEntry>
deserialize_Strings(j) ==
    IF ~IsObject(j) THEN Invalid
    ELSE IF \A k \in DOMAIN j.v : deserialize_LocalizationEntry(j.v[k]).ok
    THEN Parsed([k \in DOMAIN j.v |-> deserialize_LocalizationEntry(j.v[k]).val])
    ELSE Invalid

deserialize_XCStringsData(j) ==
    IF ~IsObject(j) THEN Invalid
    ELSE LET source_language == deserialize_String(j, "sourceLanguage")
             version == deserialize_String(j, "version")
             strings ==
                 IF ~Has(j, "strings") THEN Invalid
                 ELSE deserialize_Strings(j.v["strings"])
         IN  IF source_language.ok /\ version.ok /\ strings.ok
             THEN Parsed(XCStringsData(source_language.val, version.val,
                                       strings.val))
             ELSE Invalid

\* serde_json::from_str::<XCStringsData> on the content of a file
from_str(content) ==
    IF content.t = "invalid" THEN Invalid
    ELSE deserialize_XCStringsData(content)

\* serde_json::to_string_pretty(&self.data)
to_string_pretty(d) == serialize_XCStringsData(d)

FileFormatError(msg) == [kind |-> "FileFormatError", msg |-> msg]
IoError(msg) == [kind |-> "IoError", msg |-> msg]

\* a file of the disk: whether fs::read_to_string can read it, and its content
File(readable, content) == [readable |-> readable, content |-> content]

\* slip: no map_err, the error of serde_json is converted by the ? operator
load_without_map_err(file) ==
    IF ~file.readable THEN Err(<< >>, IoError("read"))
    ELSE LET parsed == from_str(file.content)
         IN  IF parsed.ok THEN Ok(parsed.val, "unit")
             ELSE Err(<< >>, [kind |-> "JsonError", msg |-> "Invalid JSON"])

\* XCStringsFile::load: the document is the data of the result
load(file) ==
    IF ~file.readable THEN Err(<< >>, IoError("read"))
    ELSE LET parsed == from_str(file.content)
         IN  IF parsed.ok THEN Ok(parsed.val, "unit")
             ELSE Err(<< >>, FileFormatError("Invalid JSON"))

\* the files fs::write can leave: the content written, or on a failure the
\* file as it was or a file cut short
save(d, file, written) ==
    IF written
    THEN { [ok |-> TRUE, file |-> File(file.readable, to_string_pretty(d))] }
    ELSE { [ok |-> FALSE, err |-> IoError("write"), file |-> file],
           [ok |-> FALSE, err |-> IoError("write"),
            file |-> File(file.readable, NotJson)] }

----------------------------------------------------------------------------
(* load and save called on a catalog file *)

\* entries whose members serde leaves out: no localizations, and a
\* localization without string unit and without flag
BareEntries ==
    { LocalizationEntry(None, None, << >>),
      LocalizationEntry(None, None,
        [l \in {"ja"} |-> Localization(None, None)]) }

\* the documents the files of the start hold
FileDocs ==
    { XCStringsData("en", "1.0", strings) :
        strings \in UNION { [ks -> SharedEntries \cup BareEntries] :
                              ks \in KeySets(0, MaxEntries) } }

\* the file as another tool writes it: each entry carries a member this
\* program does not know, a null comment where it has none and an empty
\* localizations object where it has none
Decorated(j) ==
    JObject([j.v EXCEPT !["strings"] =
        JObject([k \in DOMAIN j.v["strings"].v |->
            LET e == j.v["strings"].v[k].v
            IN  JObject(Members(
                    { <<n, e[n]>> : n \in DOMAIN e }
                    \cup { <<"extractionState", JString("manual")>> }
                    \cup (IF "comment" \in DOMAIN e THEN {}
                          ELSE { <<"comment", JNull>> })
                    \cup (IF "localizations" \in DOMAIN e THEN {}
                          ELSE { <<"localizations", JObject(<< >>)>> })))])])

\* contents from which from_str makes no document
BadContents ==
    { NotJson,
      JNull,
      JObject(Members({ <<"sourceLanguage", JString("en")>>,
                        <<"strings", JObject(<< >>)>> })),
      JObject(Members({ <<"sourceLanguage", JString("en")>>,
                        <<"version", JNull>>,
                        <<"strings", JObject(<< >>)>> })),
      JObject(Members({ <<"sourceLanguage", JString("en")>>,
                        <<"version", JString("1.0")>>,
                        <<"strings", JNull>> })),
      JObject(Members({ <<"sourceLanguage", JString("en")>>,
                        <<"version", JString("1.0")>>,
                        <<"strings", JObject([k \in {<<"h", "i">>} |->
                            JObject(Members({ <<"localizations", JNull>> }))])>> })),
      JObject(Members({ <<"sourceLanguage", JString("en")>>,
                        <<"version", JString("1.0")>>,
                        <<"strings", JObject([k \in {<<"h", "i">>} |->
                            JObject(Members({ <<"localizations",
                                JObject([l \in {"en"} |->
                                    JObject(Members({ <<"stringUnit",
                                        JObject(Members({ <<"state",
                                            JString("new")>> }))>> }))])>> }))])>> })) }

InitFiles ==
    { File(TRUE, serialize_XCStringsData(d)) : d \in FileDocs }
    \cup { File(TRUE, Decorated(serialize_XCStringsData(d))) : d \in FileDocs }
    \cup { File(TRUE, content) : content \in BadContents }
    \cup { File(FALSE, serialize_XCStringsData(d)) :
             d \in { f \in FileDocs : DOMAIN f.strings = {} } }

\* no document is loaded: data is empty
InitFile ==
    /\ data = << >>
    /\ call = [op |-> "none"]
    /\ ret = [ok |-> TRUE, val |-> "unit"]
    /\ marked = {}
    /\ calls = 0
    /\ pc = "idle"
    /\ args = << >>
    /\ disk \in InitFiles
    /\ backups = << >>
    /\ selected = << >>
    /\ results = << >>
    /\ exit = << >>
    /\ current = 0
    /\ batch = << >>
    /\ asked = << >>

Loaded == DOMAIN data # {}

Load ==
    LET result == load(disk)
    IN  /\ call' = [op |-> "load", file |-> disk]
        /\ ret' = IF result.ok THEN [ok |-> TRUE, val |-> "unit"]
                  ELSE [ok |-> FALSE, err |-> result.err]
        /\ data' = IF result.ok THEN result.data ELSE data
        /\ UNCHANGED <<marked, calls, pc, args, disk, backups, selected,
                       results, exit, current, batch>>
    /\ UNCHANGED asked

Save ==
    /\ Loaded
    /\ \E written \in BOOLEAN :
        \E result \in save(data, disk, written) :
            /\ call' = [op |-> "save"]
            /\ ret' = IF result.ok THEN [ok |-> TRUE, val |-> "unit"]
                      ELSE [ok |-> FALSE, err |-> result.err]
            /\ disk' = result.file
            /\ UNCHANGED <<data, marked, calls, pc, args, backups, selected,
                           results, exit, current, batch>>
    /\ UNCHANGED asked

NextFile ==
    \/ Load
    \/ Save

SpecFile == InitFile /\ [][NextFile]_vars

----------------------------------------------------------------------------
(* Translator::translate_with_context, from the response of the endpoint *)

\* the response: whether the status is a success, and the contents of the
\* choices of the body
Response(success, choices) == [success |-> success, choices |-> choices]

ApiError(message) == [kind |-> "ApiError", msg |-> message]

\* what a call gives back: a value, an error, or a panic of the thread
Returned(val) == [tag |-> "Ok", val |-> val]
Failed(err) == [tag |-> "Err", err |-> err]
Panicked == [tag |-> "Panic"]

Quote == "\""

\* the slice translation[1..translation.len() - 1] panics when the range
\* starts after its end, which is the case of a text that is one quote
translate_with_context(response) ==
    IF ~response.success THEN Failed(ApiError("status"))
    ELSE IF response.choices = << >>
    THEN Failed(TranslationFailed(<<"No choices in response">>))
    ELSE LET content == trim(response.choices[1])
             quoted == /\ Len(content) >= 1
                       /\ content[1] = Quote
                       /\ content[Len(content)] = Quote
         IN  IF quoted /\ Len(content) - 1 < 1 THEN Panicked
             ELSE LET translation ==
                          IF quoted THEN SubSeq(content, 2, Len(content) - 1)
                          ELSE content
                  IN  IF is_empty(translation)
                      THEN Failed(TranslationFailed(
                               <<"Empty translation received">>))
                      ELSE Returned(translation)

\* Translator::translate_text (translator.rs 147-187): the response is
\* handled as in translate_with_context
translate_text(response) ==
    IF ~response.success THEN Failed(ApiError("status"))
    ELSE IF response.choices = << >>
    THEN Failed(TranslationFailed(<<"No choices in response">>))
    ELSE LET content == trim(response.choices[1])
             quoted == /\ Len(content) >= 1
                       /\ content[1] = Quote
                       /\ content[Len(content)] = Quote
         IN  IF quoted /\ Len(content) - 1 < 1 THEN Panicked
             ELSE LET translation ==
                          IF quoted THEN SubSeq(content, 2, Len(content) - 1)
                          ELSE content
                  IN  IF is_empty(translation)
                      THEN Failed(TranslationFailed(
                               <<"Empty translation received">>))
                      ELSE Returned(translation)

\* the Display of an error
to_string(err) ==
    IF err.kind = "ApiError" THEN <<"API request failed with status ">>
    ELSE IF err.kind = "TranslationFailed"
    THEN <<"Translation failed: ">> \o err.msg
    ELSE <<"error">>

----------------------------------------------------------------------------
(* The two functions of the translator called on a response *)

\* the characters of a content: the quote, a blank and a letter
ContentChars == { Quote, " ", "b" }

Contents == UNION { [1..n -> ContentChars] : n \in 0..MaxContent }

\* a status that is not a success, a body without choices, a body with a
\* content
Responses ==
    { Response(FALSE, << >>), Response(TRUE, << >>) }
    \cup { Response(TRUE, <<content>>) : content \in Contents }

\* the response is drawn at the start; one function is applied to it
InitTranslate ==
    /\ data = << >>
    /\ call \in { [op |-> "none", response |-> r] : r \in Responses }
    /\ ret = [tag |-> "none"]
    /\ marked = {}
    /\ calls = 0
    /\ RunIdle

TranslateText ==
    /\ call.op = "none"
    /\ call' = [op |-> "translate_text", response |-> call.response]
    /\ ret' = translate_text(call.response)
    /\ UNCHANGED <<data, marked, calls>>
    /\ UNCHANGED runvars

TranslateWithContext ==
    /\ call.op = "none"
    /\ call' = [op |-> "translate_with_context", response |-> call.response]
    /\ ret' = translate_with_context(call.response)
    /\ UNCHANGED <<data, marked, calls>>
    /\ UNCHANGED runvars

NextTranslate ==
    \/ TranslateText
    \/ TranslateWithContext

SpecTranslate == InitTranslate /\ [][NextTranslate]_vars

----------------------------------------------------------------------------
(* The translate command: main.rs translate_command and the loops of ui.rs *)

\* number of keys of a batch the configuration or the user can ask for
MaxBatch == 3

\* the entries of the catalogs of a run: a key that lacks the target
\* language, a key translated in every language, a key that is excluded
RunEntries ==
    { LocalizationEntry(None, None,
        [l \in {"en"} |->
            Localization(Some(StringUnit("translated", <<"a">>)), None)]),
      LocalizationEntry(None, None,
        [l \in {"en", "ja"} |->
            Localization(Some(StringUnit("translated", <<"a">>)), None)]),
      LocalizationEntry(None, Some(FALSE),
        [l \in {"en"} |->
            Localization(Some(StringUnit("translated", <<"a">>)), None)]) }

RunDocs ==
    { XCStringsData("en", "1.0", strings) :
        strings \in UNION { [ks -> RunEntries] : ks \in KeySets(0, MaxEntries) } }

\* no file at the path
NoFile == File(FALSE, [t |-> "absent"])

\* path.exists()
exists(file) == file.content.t # "absent"

RunFiles ==
    { File(TRUE, serialize_XCStringsData(d)) : d \in RunDocs }
    \cup { File(TRUE, NotJson), File(TRUE, JObject(<< >>)),
           File(FALSE, JObject(<< >>)), NoFile }

\* config.batch_size, a usize (ui.rs 110 and 158): the struct field is not in
\* config.rs, so every value of the type up to the bound is a value the
\* configuration file may hold
BatchSizes == 0..MaxBatch

\* the arguments: mode, auto and language of the command line, and the batch
\* size of the configuration
RunArgs ==
    [mode : Modes, auto : BOOLEAN, language : {"ja"}, batch_size : BatchSizes]

\* the responses of the endpoint in a run
RunResponses ==
    { Response(FALSE, << >>),
      Response(TRUE, << << >> >>),
      Response(TRUE, << <<Quote>> >>),
      Response(TRUE, << <<"b">> >>),
      Response(TRUE, << <<Quote, "b", Quote>> >>) }

\* the answers of a Confirm prompt: yes, no, or the prompt fails
Answers == {"yes", "no", "error"}

\* the texts the user can type as a custom translation
CustomTexts == { << >>, <<" ">>, <<"c">> }

\* the values the command returns with
ExitOk == [status |-> "Ok"]
ExitErr(err) == [status |-> "Err", err |-> err]
ExitPanic == [status |-> "Panic"]
Anyhow(msg) == [kind |-> "anyhow", msg |-> msg]

InitRun ==
    /\ data = << >>
    /\ call = [op |-> "translate_command"]
    /\ ret = [ok |-> TRUE, val |-> "unit"]
    /\ marked = {}
    /\ calls = 0
    /\ pc = "start"
    /\ args \in RunArgs
    /\ disk \in RunFiles
    /\ backups = << >>
    /\ selected = << >>
    /\ results = << >>
    /\ exit = << >>
    /\ current = 0
    /\ batch = << >>
    /\ asked = << >>

\* the command returns
Return(value) ==
    /\ pc' = "done"
    /\ exit' = value

\* main.rs 296-325: the path must exist, then XCStringsFile::load(&file_path)?
RunLoad ==
    /\ pc = "start"
    /\ call' = [op |-> "load", file |-> disk]
    /\ IF ~exists(disk)
       THEN /\ Return(ExitErr(Anyhow("File not found")))
            /\ UNCHANGED data
       ELSE LET result == load(disk)
            IN  IF result.ok
                THEN /\ data' = result.data
                     /\ pc' = "backup"
                     /\ UNCHANGED exit
                ELSE /\ Return(ExitErr(result.err))
                     /\ UNCHANGED data
    /\ UNCHANGED <<ret, marked, calls, args, disk, backups, selected, results,
                   current, batch>>
    /\ UNCHANGED asked

\* slip: a failed backup is reported and the run goes on
RunCreateBackup_failure_ignored ==
    /\ pc = "backup"
    /\ call' = [op |-> "create_backup"]
    /\ \E copied \in BOOLEAN :
          /\ backups' \in IF copied THEN { Append(backups, disk.content) }
                          ELSE { backups, Append(backups, NotJson) }
          /\ pc' = "select"
          /\ UNCHANGED exit
    /\ UNCHANGED <<data, ret, marked, calls, args, disk, selected, results,
                   current, batch>>
    /\ UNCHANGED asked

\* main.rs 329: xcstrings.create_backup()?; fs::copy makes the backup file, and
\* when it fails it leaves no file or a file cut short
RunCreateBackup ==
    /\ pc = "backup"
    /\ call' = [op |-> "create_backup"]
    /\ \E copied \in BOOLEAN :
          IF copied
          THEN /\ backups' = Append(backups, disk.content)
               /\ pc' = "select"
               /\ UNCHANGED exit
          ELSE /\ backups' \in { backups, Append(backups, NotJson) }
               /\ Return(ExitErr(IoError("copy")))
    /\ UNCHANGED <<data, ret, marked, calls, args, disk, selected, results,
                   current, batch>>
    /\ UNCHANGED asked

\* XCStringsFile::get_translation_contexts: the keys that have a context
RECURSIVE get_translation_contexts(_, _, _)
get_translation_contexts(d, keys, source_language) ==
    IF keys = << >> THEN << >>
    ELSE LET rest == get_translation_contexts(d, Tail(keys), source_language)
         IN  IF get_translation_context(d, Head(keys), source_language) = None
             THEN rest
             ELSE <<Head(keys)>> \o rest

\* main.rs 333-365: the keys are selected; none ends the run, auto starts
\* batch_translate_keys on all of them, otherwise the menu loop starts
RunSelect ==
    /\ pc = "select"
    /\ call' = [op |-> "get_keys_needing_translation"]
    /\ LET keys == get_keys_needing_translation(data, args.language, args.mode)
       IN  /\ selected' = keys
           /\ IF keys = << >>
              THEN /\ Return(ExitOk)
                   /\ UNCHANGED batch
              ELSE IF args.auto
              THEN /\ pc' = "batch"
                   /\ batch' = keys
                   /\ UNCHANGED exit
              ELSE /\ pc' = "menu"
                   /\ UNCHANGED <<batch, exit>>
    /\ UNCHANGED <<data, ret, marked, calls, args, disk, backups, results,
                   current>>
    /\ UNCHANGED asked

\* the contexts batch_translate_keys goes through
Contexts == get_translation_contexts(data, batch, data.source_language)

\* slip: the contexts are gone through from the last one to the first
BatchTranslateKey_last_first ==
    /\ pc = "batch"
    /\ Len(results) < Len(Contexts)
    /\ \E response \in RunResponses :
          LET key == Contexts[Len(Contexts) - Len(results)]
              result == translate_with_context(response)
          IN  /\ call' = [op |-> "translate_with_context", key |-> key,
                          response |-> response]
              /\ IF result.tag = "Panic"
                 THEN /\ Return(ExitPanic)
                      /\ UNCHANGED results
                 ELSE /\ results' = Append(results,
                            IF result.tag = "Ok"
                            THEN [key |-> key, ok |-> TRUE, val |-> result.val]
                            ELSE [key |-> key, ok |-> FALSE,
                                  val |-> to_string(result.err)])
                      /\ UNCHANGED <<pc, exit>>
              /\ asked' = Append(asked, key)
    /\ UNCHANGED <<data, ret, marked, calls, args, disk, backups, selected,
                   current, batch>>

\* ui.rs 357-372: one iteration of the loop over the contexts
BatchTranslateKey ==
    /\ pc = "batch"
    /\ Len(results) < Len(Contexts)
    /\ \E response \in RunResponses :
          LET key == Contexts[Len(results) + 1]
              result == translate_with_context(response)
          IN  /\ call' = [op |-> "translate_with_context", key |-> key,
                          response |-> response]
              /\ IF result.tag = "Panic"
                 THEN /\ Return(ExitPanic)
                      /\ UNCHANGED results
                 ELSE /\ results' = Append(results,
                            IF result.tag = "Ok"
                            THEN [key |-> key, ok |-> TRUE, val |-> result.val]
                            ELSE [key |-> key, ok |-> FALSE,
                                  val |-> to_string(result.err)])
                      /\ UNCHANGED <<pc, exit>>
              /\ asked' = Append(asked, key)
    /\ UNCHANGED <<data, ret, marked, calls, args, disk, backups, selected,
                   current, batch>>

\* ui.rs 417-422: add_translation for every Ok of the results, errors ignored
RECURSIVE apply_results(_, _, _)
apply_results(d, rs, target_language) ==
    IF rs = << >> THEN d
    ELSE LET r == Head(rs)
             d1 == IF r.ok
                   THEN add_translation(d, r.key, target_language, r.val).data
                   ELSE d
         IN  apply_results(d1, Tail(rs), target_language)

\* the loop of interactive_translate goes on at index c, or ends
Continue(c) ==
    /\ current' = c
    /\ IF c < Len(selected)
       THEN pc' = "menu" /\ UNCHANGED exit
       ELSE Return(ExitOk)

\* slip: the loop of interactive_translate stays on the first key of the batch
BatchReturns_cursor_stays ==
    IF args.auto
    THEN Return(ExitOk) /\ UNCHANGED current
    ELSE Continue(current)

\* batch_translate_keys has returned Ok: the command ends in auto mode, the
\* loop of interactive_translate moves past the batch otherwise
BatchReturns ==
    IF args.auto
    THEN Return(ExitOk) /\ UNCHANGED current
    ELSE Continue(current + Len(batch))

\* ui.rs 374-430: the table, the prompt, and on yes the results are applied
\* and the document is saved
BatchConfirm ==
    /\ pc = "batch"
    /\ Len(results) = Len(Contexts)
    /\ \E proceed \in Answers :
          /\ call' = [op |-> "batch_confirm", proceed |-> proceed]
          /\ IF proceed = "error"
             THEN /\ Return(ExitErr(Anyhow("prompt")))
                  /\ UNCHANGED <<data, disk, current>>
             ELSE IF proceed = "no"
             THEN /\ BatchReturns
                  /\ UNCHANGED <<data, disk>>
             ELSE LET d == apply_results(data, results, args.language)
                  IN  \E written \in BOOLEAN :
                        \E result \in save(d, disk, written) :
                          /\ data' = d
                          /\ disk' = result.file
                          /\ IF result.ok THEN BatchReturns
                             ELSE /\ Return(ExitErr(result.err))
                                  /\ UNCHANGED current
    /\ UNCHANGED <<ret, marked, calls, args, backups, selected, results,
                   batch>>
    /\ UNCHANGED asked

\* ui.rs 112-126: the labels of the menu, by the number of keys that remain
\* after the current one
choices(remaining) ==
    <<"Translate", "Mark as no translation needed">>
    \o (IF remaining > 0
        THEN <<"Batch translate next", "Batch translate next custom number",
               "Skip">>
        ELSE << >>)
    \o (IF remaining = 0 THEN <<"Skip">> ELSE << >>)
    \o <<"Save and exit">>

\* slip: the arms are those of the menu of six entries only
match_arm_six_entries_only(selection, more) ==
    IF selection = 0 THEN "translate"
    ELSE IF selection = 1 THEN "mark"
    ELSE IF selection = 2 THEN "batch_default"
    ELSE IF selection = 3 THEN "batch_custom"
    ELSE IF selection = 4 THEN "skip"
    ELSE IF selection = 5 THEN "save_and_exit"
    ELSE "unreachable"

\* ui.rs 138-204: the arm of the match the selection is mapped to
match_arm(selection, more) ==
    IF selection = 0 THEN "translate"
    ELSE IF selection = 1 THEN "mark"
    ELSE IF selection = 2 /\ more THEN "batch_default"
    ELSE IF selection = 3 /\ more THEN "batch_custom"
    ELSE IF selection = 4 /\ more THEN "skip"
    ELSE IF (selection = 5 /\ more) \/ (selection = 3 /\ ~more)
    THEN "save_and_exit"
    ELSE IF selection = 2 /\ ~more THEN "skip"
    ELSE "unreachable"

\* the menu is shown for the key at index current
key_at_menu == selected[current + 1]
remaining_at_menu == Len(selected) - current - 1

\* the user selects an entry of the menu that the match maps to arm
Selects(arm) ==
    /\ pc = "menu"
    /\ \E selection \in 0..(Len(choices(remaining_at_menu)) - 1) :
          /\ match_arm(selection, remaining_at_menu > 0) = arm
          /\ call' = [op |-> "menu", selection |-> selection, arm |-> arm,
                      current |-> current]

\* slip: the document is changed in memory and the loop goes on without save
SaveAndAdvance_no_save(d) ==
    /\ data' = d
    /\ UNCHANGED disk
    /\ Continue(current + 1)

\* xcstrings.save()? in the loop, then current += 1
SaveAndAdvance(d) ==
    \E written \in BOOLEAN :
        \E result \in save(d, disk, written) :
            /\ data' = d
            /\ disk' = result.file
            /\ IF result.ok THEN Continue(current + 1)
               ELSE Return(ExitErr(result.err)) /\ UNCHANGED current

\* what the user types at the custom translation prompt, or the prompt fails
CustomInputs ==
    { [ok |-> FALSE, text |-> << >>] }
    \cup { [ok |-> TRUE, text |-> t] : t \in CustomTexts }

\* ui.rs 210-283: the result is Ok(true) with the document changed, Ok(false),
\* an error or a panic
translate_single_key(d, key, target_language, response, confirm, custom) ==
    IF get_translation_context(d, key, d.source_language) = None
    THEN [tag |-> "Ok", val |-> FALSE, data |-> d]
    ELSE LET result == translate_with_context(response)
         IN  IF result.tag = "Panic" THEN [tag |-> "Panic", data |-> d]
             ELSE IF result.tag = "Err"
             THEN [tag |-> "Ok", val |-> FALSE, data |-> d]
             ELSE IF confirm = "error"
             THEN [tag |-> "Err", err |-> Anyhow("prompt"), data |-> d]
             ELSE IF confirm = "yes"
             THEN LET r == add_translation(d, key, target_language, result.val)
                  IN  IF r.ok THEN [tag |-> "Ok", val |-> TRUE, data |-> r.data]
                      ELSE [tag |-> "Err", err |-> r.err, data |-> d]
             ELSE IF ~custom.ok
             THEN [tag |-> "Err", err |-> Anyhow("prompt"), data |-> d]
             ELSE IF ~is_empty(trim(custom.text))
             THEN LET r == add_translation(d, key, target_language, custom.text)
                  IN  IF r.ok THEN [tag |-> "Ok", val |-> TRUE, data |-> r.data]
                      ELSE [tag |-> "Err", err |-> r.err, data |-> d]
             ELSE [tag |-> "Ok", val |-> FALSE, data |-> d]

\* ui.rs 107-136: Config::load fails or the menu prompt fails
MenuFails ==
    /\ pc = "menu"
    /\ call' = [op |-> "menu", selection |-> "error"]
    /\ Return(ExitErr(Anyhow("menu")))
    /\ UNCHANGED <<data, ret, marked, calls, args, disk, backups, selected,
                   results, current, batch>>
    /\ UNCHANGED asked

\* ui.rs 139-147
MenuTranslate ==
    /\ Selects("translate")
    /\ \E response \in RunResponses, confirm \in Answers,
          custom \in CustomInputs :
          LET r == translate_single_key(data, key_at_menu, args.language,
                                        response, confirm, custom)
          IN  IF r.tag = "Panic"
              THEN Return(ExitPanic) /\ UNCHANGED <<data, disk, current>>
              ELSE IF r.tag = "Err"
              THEN Return(ExitErr(r.err)) /\ UNCHANGED <<data, disk, current>>
              ELSE IF r.val THEN SaveAndAdvance(r.data)
              ELSE Continue(current + 1) /\ UNCHANGED <<data, disk>>
    /\ asked' = IF get_translation_context(data, key_at_menu,
                                           data.source_language) = None
                THEN asked ELSE Append(asked, key_at_menu)
    /\ UNCHANGED <<ret, marked, calls, args, backups, selected, results, batch>>

\* ui.rs 148-155
MenuMark ==
    /\ Selects("mark")
    /\ LET r == mark_as_no_translate(data, key_at_menu)
       IN  IF r.ok THEN SaveAndAdvance(r.data)
           ELSE Return(ExitErr(r.err)) /\ UNCHANGED <<data, disk, current>>
    /\ UNCHANGED <<ret, marked, calls, args, backups, selected, results, batch>>
    /\ UNCHANGED asked

\* slip: the size asked for is taken as it is
min_uncapped(a, b) == a

min(a, b) == IF a <= b THEN a ELSE b

\* the range from..to of a slice of keys is in bounds (the index panics
\* otherwise)
in_bounds(keys, from, to) == from <= to /\ to <= Len(keys)

\* ui.rs 159-165 and 184-190: the slice of size keys from the current one is
\* taken and shown, and on yes batch_translate_keys starts on it
StartBatch(size) ==
    IF ~in_bounds(selected, current, current + size)
    THEN Return(ExitPanic) /\ UNCHANGED <<batch, results>>
    ELSE \E proceed \in Answers :
        IF proceed = "error"
        THEN Return(ExitErr(Anyhow("prompt"))) /\ UNCHANGED <<batch, results>>
        ELSE IF proceed = "no"
        THEN UNCHANGED <<pc, exit, batch, results>>
        ELSE /\ batch' = SubSeq(selected, current + 1, current + size)
             /\ results' = << >>
             /\ pc' = "batch"
             /\ UNCHANGED exit

\* ui.rs 156-165
MenuBatchDefault ==
    /\ Selects("batch_default")
    /\ StartBatch(min(args.batch_size, remaining_at_menu + 1))
    /\ UNCHANGED <<data, ret, marked, calls, args, disk, backups, selected,
                   current>>
    /\ UNCHANGED asked

\* ui.rs 166-190: the input is validated as a positive integer and written
\* to the configuration
MenuBatchCustom ==
    /\ Selects("batch_custom")
    /\ \E new_batch_size \in 1..MaxBatch, updated \in BOOLEAN :
          IF ~updated
          THEN /\ Return(ExitErr(Anyhow("config")))
               /\ UNCHANGED <<args, batch, results>>
          ELSE /\ args' = [args EXCEPT !.batch_size = new_batch_size]
               /\ StartBatch(min(new_batch_size, remaining_at_menu + 1))
    /\ UNCHANGED <<data, ret, marked, calls, disk, backups, selected, current>>
    /\ UNCHANGED asked

\* ui.rs 191-194 and 199-202
MenuSkip ==
    /\ Selects("skip")
    /\ Continue(current + 1)
    /\ UNCHANGED <<data, ret, marked, calls, args, disk, backups, selected,
                   results, batch>>
    /\ UNCHANGED asked

\* ui.rs 195-198: break
MenuSaveAndExit ==
    /\ Selects("save_and_exit")
    /\ Return(ExitOk)
    /\ UNCHANGED <<data, ret, marked, calls, args, disk, backups, selected,
                   results, current, batch>>
    /\ UNCHANGED asked

NextRun ==
    \/ RunLoad
    \/ RunCreateBackup
    \/ RunSelect
    \/ BatchTranslateKey
    \/ BatchConfirm
    \/ MenuFails
    \/ MenuTranslate
    \/ MenuMark
    \/ MenuBatchDefault
    \/ MenuBatchCustom
    \/ MenuSkip
    \/ MenuSaveAndExit

SpecRun == InitRun /\ [][NextRun]_vars

----------------------------------------------------------------------------
(* main.rs: the settings of the translate command, from the command line,  *)
(* the configuration and the environment, up to Translator::new            *)

\* the default_value of --base-url and of --model (main.rs 70 and 78)
DefaultBaseUrl == "https://openrouter.ai/api/v1"
DefaultModel == "anthropic/claude-3.5-sonnet"

\* what the user writes on the command line: each option is given or not
CommandLines ==
    [api_key : { None, Some("cli-key") },
     base_url : { None, Some(DefaultBaseUrl), Some("cli-url") },
     model : { None, Some(DefaultModel), Some("cli-model") },
     language : { None, Some("ja") }]

\* Cli::parse: an option with a default_value holds the default when the
\* user does not give it
parse(command_line) ==
    [api_key |-> command_line.api_key,
     base_url |-> IF command_line.base_url = None THEN DefaultBaseUrl
                  ELSE Unwrap(command_line.base_url),
     model |-> IF command_line.model = None THEN DefaultModel
               ELSE Unwrap(command_line.model),
     language |-> command_line.language]

\* Config::default (config.rs 18-32), the fields the command reads
ConfigDefault ==
    [api_key |-> "", base_url |-> DefaultBaseUrl, model |-> DefaultModel,
     default_language |-> "en"]

\* the configurations a file can hold
Configs ==
    [api_key : { "", "config-key" },
     base_url : { DefaultBaseUrl, "config-url" },
     model : { DefaultModel, "config-model" },
     default_language : { "en", "ja" }]

\* the results of Config::load: an error, no file, a configuration
ConfigLoads ==
    { [ok |-> FALSE, val |-> None], [ok |-> TRUE, val |-> None] }
    \cup { [ok |-> TRUE, val |-> Some(c)] : c \in Configs }

\* env::var("OPENROUTER_API_KEY")
Environments == { None, Some("env-key") }

\* main.rs 142-154
get_api_key(provided_key, env) ==
    IF provided_key # None THEN [ok |-> TRUE, val |-> Unwrap(provided_key)]
    ELSE IF env # None THEN [ok |-> TRUE, val |-> Unwrap(env)]
    ELSE [ok |-> FALSE, val |-> "No API key found"]

\* main.rs 170-203 and 317-322: the effective settings, the api key of
\* translate_command and the translator it creates
resolve(command_line, config_load, env, updated) ==
    IF ~config_load.ok
    THEN [status |-> "Err", err |-> "config", translator |-> None,
          language |-> None, saved_language |-> None]
    ELSE LET cli == parse(command_line)
             config == IF config_load.val = None THEN ConfigDefault
                       ELSE Unwrap(config_load.val)
             effective_api_key ==
                 IF cli.api_key # None THEN Unwrap(cli.api_key)
                 ELSE config.api_key
             effective_base_url ==
                 IF cli.base_url = DefaultBaseUrl THEN config.base_url
                 ELSE cli.base_url
             effective_model ==
                 IF cli.model = DefaultModel THEN config.model
                 ELSE cli.model
             language_value ==
                 IF cli.language # None THEN Unwrap(cli.language)
                 ELSE config.default_language
             changed == cli.language # None
                        /\ language_value # config.default_language
         IN  IF changed /\ ~updated
             THEN [status |-> "Err", err |-> "config", translator |-> None,
                   language |-> None, saved_language |-> None]
             ELSE LET api_key == get_api_key(Some(effective_api_key), env)
                      saved == IF changed THEN Some(language_value) ELSE None
                  IN  IF ~api_key.ok
                      THEN [status |-> "Err", err |-> api_key.val,
                            translator |-> None, language |-> None,
                            saved_language |-> saved]
                      ELSE [status |-> "Ok", err |-> "",
                            translator |->
                                Some([api_key |-> api_key.val,
                                      base_url |-> effective_base_url,
                                      model |-> effective_model]),
                            language |-> Some(language_value),
                            saved_language |-> saved]

\* the command line, the configuration and the environment are drawn at the
\* start
InitSettings ==
    /\ data = << >>
    /\ call = [op |-> "none"]
    /\ ret = [status |-> "none"]
    /\ marked = {}
    /\ calls = 0
    /\ pc = "idle"
    /\ args \in [command_line : CommandLines, config_load : ConfigLoads,
                 env : Environments]
    /\ disk = << >>
    /\ backups = << >>
    /\ selected = << >>
    /\ results = << >>
    /\ exit = << >>
    /\ current = 0
    /\ batch = << >>
    /\ asked = << >>

\* the translate command is started: the settings are resolved and the
\* translator is created; update_default_language can fail
ResolveSettings ==
    /\ call.op = "none"
    /\ call' = [op |-> "translate"]
    /\ \E updated \in BOOLEAN :
          ret' = resolve(args.command_line, args.config_load, args.env, updated)
    /\ UNCHANGED <<data, marked, calls>>
    /\ UNCHANGED runvars

NextSettings == ResolveSettings

SpecSettings == InitSettings /\ [][NextSettings]_vars

----------------------------------------------------------------------------
(* main.rs: the clean command.  In this specification disk is the set of   *)
(* the files of the file system, each a path (the sequence of the names    *)
(* from the root, a name being a sequence of characters), backups is the   *)
(* list find_backup_files returned and selected the indices chosen.        *)

MaxFiles == 3

\* the name of the catalog (find_project_root) and the names around it
CatalogName == Chars("Localizable.xcstrings")
Timestamps == { Chars("20240101_000000"), Chars("20240102_000000") }

\* Path::with_extension: the part after the last dot that is not the first
\* character is replaced
with_extension(name, extension) ==
    LET dots == { i \in 2..Len(name) : name[i] = "." }
        last == CHOOSE i \in dots : \A j \in dots : j <= i
        stem == IF dots = {} THEN name ELSE SubSeq(name, 1, last - 1)
    IN  stem \o <<".">> \o extension

\* xcstrings.rs 74-76: the name create_backup gives to the copy
backup_name(name, timestamp) ==
    with_extension(name, Chars("xcstrings.backup_") \o timestamp)

\* the directories of the file system; the name of the last one holds the
\* mark of a backup
CleanDirectories ==
    { << >>, <<Chars("sub")>>, <<Chars("old.xcstrings.backup_dir")>> }

\* the names of files: the catalog, its backups, a name that misses the mark
\* by its last character, and a file of another kind
CleanFileNames ==
    { CatalogName, Chars("Localizable.xcstrings.backup"), Chars("notes.txt") }
    \cup { backup_name(CatalogName, t) : t \in Timestamps }

\* the files that can be there
CleanPaths ==
    { << >> \o <<n>> : n \in CleanFileNames }
    \cup { <<Chars("sub")>> \o <<n>> :
             n \in { CatalogName,
                     backup_name(CatalogName, Chars("20240101_000000")) } }
    \cup { <<Chars("old.xcstrings.backup_dir")>> \o <<CatalogName>> }

CleanTrees == { t \in SUBSET CleanPaths : Cardinality(t) <= MaxFiles }

\* the directory of the command: one that exists, one that does not, and the
\* path of a file
CleanTargets ==
    CleanDirectories \cup { <<Chars("missing")>>, <<Chars("notes.txt")>> }

file_name(path) == path[Len(path)]

\* the path is below the directory, at any depth
below(directory, path) ==
    /\ Len(path) > Len(directory)
    /\ SubSeq(path, 1, Len(directory)) = directory

\* slip: a file is a backup when its name holds ".xcstrings"
is_backup_file_xcstrings(name) == contains(name, ".xcstrings")

\* main.rs 494: file_name.contains(".xcstrings.backup_")
is_backup_file(name) == contains(name, ".xcstrings.backup_")

\* main.rs 483-512: the files below the directory whose name is the name of
\* a backup; the directories are gone into and never listed
search_directory_recursive(tree, directory) ==
    { path \in tree : below(directory, path) /\ is_backup_file(file_name(path)) }

\* the lists of the elements of a set, in every order
Orders(set) ==
    { order \in [1..Cardinality(set) -> set] :
        \A i, j \in 1..Cardinality(set) : order[i] = order[j] => i = j }

\* main.rs 463-481: the directory must exist and be a directory, read_dir and
\* metadata can fail, and the files found are sorted by modification time,
\* which is any order
find_backup_files(tree, directory, readable) ==
    IF directory \notin CleanDirectories /\ directory \notin tree
    THEN { [ok |-> FALSE, err |-> Anyhow("Directory does not exist")] }
    ELSE IF directory \notin CleanDirectories
    THEN { [ok |-> FALSE, err |-> Anyhow("Path is not a directory")] }
    ELSE IF ~readable
    THEN { [ok |-> FALSE, err |-> Anyhow("io")] }
    ELSE { [ok |-> TRUE, val |-> order] :
             order \in Orders(search_directory_recursive(tree, directory)) }

\* main.rs 571-593: every file of the list is removed; a removal that fails
\* is reported and the others go on
delete_backup_files(tree, backup_files, failed) ==
    tree \ { backup_files[i] : i \in DOMAIN backup_files \ failed }

\* the elements of a list at the indices chosen (main.rs 544-546; the
\* indices of MultiSelect are in order)
RECURSIVE pick(_, _, _)
pick(list, chosen, i) ==
    IF i > Len(list) THEN << >>
    ELSE (IF i \in chosen THEN <<list[i]>> ELSE << >>)
         \o pick(list, chosen, i + 1)

CleanIdle ==
    /\ data = << >>
    /\ ret = [status |-> "none"]
    /\ marked = {}
    /\ calls = 0
    /\ results = << >>
    /\ current = 0
    /\ batch = << >>
    /\ asked = << >>

InitClean ==
    /\ CleanIdle
    /\ call = [op |-> "clean_command"]
    /\ pc = "start"
    /\ args \in [directory : CleanTargets]
    /\ disk \in CleanTrees
    /\ backups = << >>
    /\ selected = {}
    /\ exit = << >>

cleanidle == <<data, ret, marked, calls, results, current, batch, asked>>

\* main.rs 384-390: the scan; an error ends the command, and so does an
\* empty list
CleanScan ==
    /\ pc = "start"
    /\ \E readable \in BOOLEAN :
         \E found \in find_backup_files(disk, args.directory, readable) :
            /\ call' = [op |-> "find_backup_files", readable |-> readable]
            /\ IF ~found.ok
               THEN Return(ExitErr(found.err)) /\ UNCHANGED backups
               ELSE IF found.val = << >>
               THEN Return(ExitOk) /\ UNCHANGED backups
               ELSE /\ backups' = found.val
                    /\ pc' = "menu"
                    /\ UNCHANGED exit
    /\ UNCHANGED <<args, disk, selected>>
    /\ UNCHANGED cleanidle

\* main.rs 416-420: the prompt of the menu fails
CleanMenuFails ==
    /\ pc = "menu"
    /\ call' = [op |-> "clean_menu", selection |-> "error",
                confirm |-> "none", failed |-> {}]
    /\ Return(ExitErr(Anyhow("prompt")))
    /\ UNCHANGED <<args, disk, backups, selected>>
    /\ UNCHANGED cleanidle

\* main.rs 423-439: delete all, after the confirmation
CleanDeleteAll ==
    /\ pc = "menu"
    /\ \E confirm \in Answers, failed \in SUBSET DOMAIN backups :
          /\ call' = [op |-> "clean_menu", selection |-> "0",
                      confirm |-> confirm,
                      failed |-> IF confirm = "yes" THEN failed ELSE {}]
          /\ IF confirm = "error"
             THEN Return(ExitErr(Anyhow("prompt"))) /\ UNCHANGED disk
             ELSE /\ Return(ExitOk)
                  /\ disk' = IF confirm = "yes"
                             THEN delete_backup_files(disk, backups, failed)
                             ELSE disk
    /\ UNCHANGED <<args, backups, selected>>
    /\ UNCHANGED cleanidle

\* main.rs 440-443 and 514-569: the files are chosen, shown and deleted after
\* the confirmation; with none chosen the command ends before the prompt
CleanSelectAndDelete ==
    /\ pc = "menu"
    /\ \E prompted \in BOOLEAN, selections \in SUBSET DOMAIN backups :
          IF ~prompted
          THEN /\ call' = [op |-> "clean_menu", selection |-> "1",
                           confirm |-> "none", failed |-> {}]
               /\ Return(ExitErr(Anyhow("prompt")))
               /\ UNCHANGED <<disk, selected>>
          ELSE IF selections = {}
          THEN /\ call' = [op |-> "clean_menu", selection |-> "1",
                           confirm |-> "none", failed |-> {}]
               /\ selected' = {}
               /\ Return(ExitOk)
               /\ UNCHANGED disk
          ELSE LET selected_files == pick(backups, selections, 1)
               IN  \E confirm \in Answers,
                      failed \in SUBSET DOMAIN selected_files :
                     /\ call' = [op |-> "clean_menu", selection |-> "1",
                                 confirm |-> confirm,
                                 failed |-> IF confirm = "yes" THEN failed
                                            ELSE {}]
                     /\ selected' = selections
                     /\ IF confirm = "error"
                        THEN /\ Return(ExitErr(Anyhow("prompt")))
                             /\ UNCHANGED disk
                        ELSE /\ Return(ExitOk)
                             /\ disk' =
                                  IF confirm = "yes"
                                  THEN delete_backup_files(disk, selected_files,
                                                           failed)
                                  ELSE disk
    /\ UNCHANGED <<args, backups>>
    /\ UNCHANGED cleanidle

\* main.rs 444-447: cancel
CleanCancel ==
    /\ pc = "menu"
    /\ call' = [op |-> "clean_menu", selection |-> "2", confirm |-> "none",
                failed |-> {}]
    /\ Return(ExitOk)
    /\ UNCHANGED <<args, disk, backups, selected>>
    /\ UNCHANGED cleanidle

NextClean ==
    \/ CleanScan
    \/ CleanMenuFails
    \/ CleanDeleteAll
    \/ CleanSelectAndDelete
    \/ CleanCancel

SpecClean == InitClean /\ [][NextClean]_vars

----------------------------------------------------------------------------
(* Vocabulary of the properties, stated on the fields of the catalog *)

Entries == data.strings

\* the entry's own flag or the flag of one of its localizations is false
FlaggedOff(entry) ==
    \/ FALSE \in entry.should_translate
    \/ \E lang \in DOMAIN entry.localizations :
          FALSE \in entry.localizations[lang].should_translate

\* the key holds a character that is not whitespace
NonBlank(key) == \E i \in 1..Len(key) : key[i] \notin Whitespace

\* the language has no localization, no string unit or an empty value
NoTranslation(entry, lang) ==
    \/ lang \notin DOMAIN entry.localizations
    \/ entry.localizations[lang].string_unit = {}
    \/ \E u \in entry.localizations[lang].string_unit : u.value = << >>

Selecting == call.op = "get_keys_needing_translation"
Adding == call.op = "add_translation"
Marking == call.op = "mark_as_no_translate"

----------------------------------------------------------------------------
\* C1: in both modes and for every target language, the keys returned by
\* get_keys_needing_translation hold no key whose entry has should_translate
\* false or has a localization, of any language, with should_translate false.
C1_NeverSelectsFlaggedOff ==
    Selecting =>
        \A key \in Range(ret.val) :
            /\ key \in DOMAIN Entries
            /\ FALSE \notin Entries[key].should_translate
            /\ \A lang \in DOMAIN Entries[key].localizations :
                  FALSE \notin Entries[key].localizations[lang].should_translate

\* a selection returned a key while another key of the catalog was left out
\* only because a localization of a language other than the target is flagged
C1_Witness ==
    /\ Selecting
    /\ ret.val # << >>
    /\ \E key \in DOMAIN Entries :
          /\ NonBlank(key)
          /\ FALSE \notin Entries[key].should_translate
          /\ \E lang \in DOMAIN Entries[key].localizations \ {call.target_language} :
                FALSE \in Entries[key].localizations[lang].should_translate
          /\ \A lang \in DOMAIN Entries[key].localizations \cap {call.target_language} :
                FALSE \notin Entries[key].localizations[lang].should_translate

\* C2: in Supplement mode the returned keys are exactly the keys that are not
\* blank, are not flagged off, and whose target language has no localization,
\* no string unit or an empty value.
C2_SupplementExact ==
    (Selecting /\ call.mode = "Supplement") =>
        Range(ret.val) =
            { key \in DOMAIN Entries :
                /\ NonBlank(key)
                /\ ~FlaggedOff(Entries[key])
                /\ NoTranslation(Entries[key], call.target_language) }

\* a Supplement selection returned a key whose target localization is present
\* but has no string unit
C2_Witness ==
    /\ Selecting
    /\ call.mode = "Supplement"
    /\ \E key \in Range(ret.val) :
          /\ call.target_language \in DOMAIN Entries[key].localizations
          /\ Entries[key].localizations[call.target_language].string_unit = {}

\* C3: in Fresh mode the returned keys are exactly the keys that are not blank
\* and not flagged off, whatever the target language's localization holds.
C3_FreshExact ==
    (Selecting /\ call.mode = "Fresh") =>
        Range(ret.val) =
            { key \in DOMAIN Entries : NonBlank(key) /\ ~FlaggedOff(Entries[key]) }

\* a Fresh selection returned a key that is already translated
C3_Witness ==
    /\ Selecting
    /\ call.mode = "Fresh"
    /\ \E key \in Range(ret.val) : ~NoTranslation(Entries[key], call.target_language)

\* C4: on every catalog and for every language the Fresh selection holds every
\* key of the Supplement selection.
C4_FreshSupersetOfSupplement ==
    \A lang \in Langs :
        Range(get_keys_needing_translation(data, lang, "Supplement"))
            \subseteq Range(get_keys_needing_translation(data, lang, "Fresh"))

\* a Fresh selection was returned that is strictly larger than the non-empty
\* Supplement selection of the same catalog and language
C4_Witness ==
    /\ Selecting
    /\ call.mode = "Fresh"
    /\ LET sup == Range(get_keys_needing_translation(data, call.target_language,
                                                     "Supplement"))
       IN  sup # {} /\ sup # Range(ret.val)

\* C5: add_translation on a present key leaves a localization of the language
\* whose string_unit is {state: "translated", value: text}, whatever it held
\* before; the localization's should_translate is the flag it had before the
\* call, and is unset when the call created the localization.
C5_AddSetsStringUnit ==
    [][ (call'.op = "add_translation" /\ call'.key \in DOMAIN data.strings) =>
          LET old == data.strings[call'.key].localizations
              new == data'.strings[call'.key].localizations
              lang == call'.target_language
          IN  /\ ret'.ok
              /\ call'.key \in DOMAIN data'.strings
              /\ lang \in DOMAIN new
              /\ new[lang].string_unit =
                    {[state |-> "translated", value |-> call'.translation]}
              /\ new[lang].should_translate =
                    IF lang \in DOMAIN old THEN old[lang].should_translate ELSE {}
      ]_vars

\* add_translation succeeded and wrote a text other than the one this model's
\* catalogs start with into a localization that carries a should_translate flag
C5_Witness ==
    /\ Adding
    /\ ret.ok
    /\ Entries[call.key].localizations[call.target_language].should_translate # {}
    /\ call.translation = <<"b">>

\* C6: add_translation changes nothing but the localization of its language:
\* the other entries, the other localizations of the entry, the entry's comment
\* and should_translate, source_language and version are unchanged, and no
\* localization is removed.
C6_AddFrame ==
    [][ (call'.op = "add_translation" /\ call'.key \in DOMAIN data.strings) =>
          LET old == data.strings[call'.key]
              new == data'.strings[call'.key]
              lang == call'.target_language
          IN  /\ DOMAIN data'.strings = DOMAIN data.strings
              /\ \A key \in DOMAIN data.strings \ {call'.key} :
                    data'.strings[key] = data.strings[key]
              /\ DOMAIN new.localizations = DOMAIN old.localizations \cup {lang}
              /\ \A l \in DOMAIN old.localizations \ {lang} :
                    new.localizations[l] = old.localizations[l]
              /\ new.comment = old.comment
              /\ new.should_translate = old.should_translate
              /\ data'.source_language = data.source_language
              /\ data'.version = data.version
      ]_vars

\* add_translation succeeded on an entry that has a comment and a localization
\* of another language, in a catalog with another entry
C6_Witness ==
    /\ Adding
    /\ ret.ok
    /\ DOMAIN Entries # {call.key}
    /\ Entries[call.key].comment # {}
    /\ DOMAIN Entries[call.key].localizations # {call.target_language}

\* C7: calling add_translation a second time with the same key, language and
\* text returns the same result and leaves the catalog as the first call left it.
C7_AddIdempotent ==
    Adding =>
        LET again == add_translation(data, call.key, call.target_language,
                                     call.translation)
        IN  /\ again.data = data
            /\ again.ok = ret.ok

\* add_translation succeeded with a non-empty text as the first call of the
\* run, so that the second call meets the localization the first left
C7_Witness ==
    /\ Adding
    /\ ret.ok
    /\ calls = 1
    /\ call.translation # << >>

\* C8: on a key that the catalog does not hold, add_translation and
\* mark_as_no_translate return TranslationFailed("Key not found: <key>") and
\* leave the catalog as it was.
C8_AbsentKeyFails ==
    [][ (/\ call'.op \in {"add_translation", "mark_as_no_translate"}
         /\ call'.key \notin DOMAIN data.strings) =>
          /\ ret' = [ok |-> FALSE,
                     err |-> [kind |-> "TranslationFailed",
                              msg |-> <<"Key not found: ">> \o call'.key]]
          /\ data' = data
      ]_vars

\* a mutator was called on a key the catalog does not hold and failed
C8_Witness ==
    /\ Adding \/ Marking
    /\ ~ret.ok
    /\ call.key \notin DOMAIN Entries

\* C9: mark_as_no_translate on a present key sets the entry's should_translate
\* to false and changes nothing else in the catalog.
C9_MarkFrame ==
    [][ (call'.op = "mark_as_no_translate" /\ call'.key \in DOMAIN data.strings) =>
          /\ ret'.ok
          /\ DOMAIN data'.strings = DOMAIN data.strings
          /\ data'.strings[call'.key].should_translate = {FALSE}
          /\ data'.strings[call'.key].localizations =
                data.strings[call'.key].localizations
          /\ data'.strings[call'.key].comment = data.strings[call'.key].comment
          /\ \A key \in DOMAIN data.strings \ {call'.key} :
                data'.strings[key] = data.strings[key]
          /\ data'.source_language = data.source_language
          /\ data'.version = data.version
      ]_vars

\* mark_as_no_translate succeeded on an entry that has localizations, in a
\* catalog with another entry
C9_Witness ==
    /\ Marking
    /\ ret.ok
    /\ DOMAIN Entries[call.key].localizations # {}
    /\ DOMAIN Entries # {call.key}

\* C10: a key on which mark_as_no_translate has succeeded is returned by no
\* later selection, for any language and mode, whatever calls were made since.
C10_ExcludedIsTerminal ==
    \A key \in marked :
        /\ \A lang \in Langs, mode \in Modes :
              key \notin Range(get_keys_needing_translation(data, lang, mode))
        /\ Selecting => key \notin Range(ret.val)

\* the last call is an add_translation that succeeded on a key, not blank,
\* that was marked before and has no localization flagged off
C10_Witness ==
    /\ Adding
    /\ ret.ok
    /\ call.key \in marked
    /\ NonBlank(call.key)
    /\ \A lang \in DOMAIN Entries[call.key].localizations :
          FALSE \notin Entries[call.key].localizations[lang].should_translate

\* the Supplement selection of a language on a catalog, as a set of keys
Supplement(d, lang) == Range(get_keys_needing_translation(d, lang, "Supplement"))

\* C11: after add_translation(k, L, text) has succeeded with a text that is not
\* empty, the Supplement selection of L does not hold k.
C11_TranslatedLeavesSupplement ==
    (Adding /\ ret.ok /\ call.translation # << >>) =>
        call.key \notin Supplement(data, call.target_language)

\* add_translation succeeded with a non-empty text on a key that is not blank
\* and not flagged off, so that only the text keeps it out of the selection
C11_Witness ==
    /\ Adding
    /\ ret.ok
    /\ call.translation # << >>
    /\ NonBlank(call.key)
    /\ ~FlaggedOff(Entries[call.key])
    /\ call.key \in Range(get_keys_needing_translation(data, call.target_language,
                                                      "Fresh"))

\* C12 as stated: a key that is out of the Supplement selection of L stays out
\* of it over every call.
C12_NeverReverts ==
    [][ \A key \in DOMAIN data.strings, lang \in Langs :
          key \notin Supplement(data, lang) => key \notin Supplement(data', lang)
      ]_vars

\* C12, amended: a key that is out of the Supplement selection of L stays out
\* of it over every call other than an add_translation of the empty text on
\* that key and language.
C12_NeverRevertsUnlessEmptied ==
    [][ \A key \in DOMAIN data.strings, lang \in Langs :
          (/\ key \notin Supplement(data, lang)
           /\ ~(/\ call'.op = "add_translation"
                /\ call'.key = key
                /\ call'.target_language = lang
                /\ call'.translation = << >>)) =>
             key \notin Supplement(data', lang)
      ]_vars

\* add_translation succeeded on a key that is not blank and not flagged off and
\* that holds a translation in a language other than the one written
C12_Witness ==
    /\ Adding
    /\ ret.ok
    /\ NonBlank(call.key)
    /\ ~FlaggedOff(Entries[call.key])
    /\ \E lang \in Langs \ {call.target_language} :
          /\ ~NoTranslation(Entries[call.key], lang)
          /\ call.key \notin Supplement(data, lang)

----------------------------------------------------------------------------
\* the last call is get_translation_context on a key the catalog holds
Extracting ==
    /\ call.op = "get_translation_context"
    /\ call.key \in DOMAIN data.strings

\* the value of the language in the entry, as a set with at most one element
ValueOf(entry, lang) ==
    IF lang \in DOMAIN entry.localizations
    THEN { u.value : u \in entry.localizations[lang].string_unit }
    ELSE {}

\* C13: for a key of the catalog, the source_text of the context is the value
\* of the source language when that value exists and is not blank, and the key
\* itself otherwise.
C13_SourceTextOrKey ==
    Extracting =>
        /\ ret.val # {}
        /\ \A ctx \in ret.val :
              LET usable == { v \in ValueOf(Entries[call.key], call.source_language) :
                                NonBlank(v) }
              IN  /\ \A v \in usable : ctx.source_text = v
                  /\ usable = {} => ctx.source_text = call.key

\* a context was returned for a key whose source value is blank but not empty,
\* and its source_text is the key
C13_Witness ==
    /\ Extracting
    /\ ValueOf(Entries[call.key], call.source_language) = { <<" ">> }
    /\ \E ctx \in ret.val : ctx.source_text = call.key

\* C14: existing_translations holds (language, value) exactly for the
\* localizations of the key, other than the source language, whose value is not
\* blank.
C14_ExistingTranslationsExact ==
    Extracting =>
        \A ctx \in ret.val :
            /\ DOMAIN ctx.existing_translations =
                  { lang \in DOMAIN Entries[call.key].localizations \ {call.source_language} :
                      \E v \in ValueOf(Entries[call.key], lang) : NonBlank(v) }
            /\ \A lang \in DOMAIN ctx.existing_translations :
                  ValueOf(Entries[call.key], lang) = { ctx.existing_translations[lang] }

\* a context was returned with a translation of another language, for an entry
\* that also has a usable source value and a blank value in a third language
C14_Witness ==
    /\ Extracting
    /\ \E v \in ValueOf(Entries[call.key], call.source_language) : NonBlank(v)
    /\ \E lang \in DOMAIN Entries[call.key].localizations \ {call.source_language} :
          ValueOf(Entries[call.key], lang) = { <<" ">> }
    /\ \E ctx \in ret.val : DOMAIN ctx.existing_translations # {}

----------------------------------------------------------------------------
\* a pattern of a rule: a word that the lower-cased key holds, or begins with
Holds(word) == [word |-> word, prefix |-> FALSE]
BeginsWith(word) == [word |-> word, prefix |-> TRUE]

\* the lower-cased key matches one of the patterns
MatchesAny(patterns, lower) ==
    \E p \in patterns :
        LET word == Chars(p.word)
            starts == IF p.prefix THEN {0} ELSE 0..Len(lower)
        IN  \E i \in starts :
                /\ i + Len(word) <= Len(lower)
                /\ SubSeq(lower, i + 1, i + Len(word)) = word

\* the result of the first rule of the list that matches, as an Option
FirstMatch(rules, lower) ==
    LET hits == { i \in 1..Len(rules) : MatchesAny(rules[i].patterns, lower) }
    IN  IF hits = {} THEN {}
        ELSE { rules[CHOOSE i \in hits : \A j \in hits : i <= j].result }

\* the number of rules of the list that match
MatchCount(rules, lower) ==
    Cardinality({ i \in 1..Len(rules) : MatchesAny(rules[i].patterns, lower) })

MeaningRules ==
    << [patterns |-> {Holds("usagedescription")},
        result |-> "privacy permission description"],
       [patterns |-> {BeginsWith("cfbundle")},
        result |-> "app bundle configuration"],
       [patterns |-> {Holds("widget")},
        result |-> "widget configuration"],
       [patterns |-> {Holds("config"), Holds("setting")},
        result |-> "configuration setting"],
       [patterns |-> {Holds("error"), Holds("fail")},
        result |-> "error message"],
       [patterns |-> {Holds("success"), Holds("complete")},
        result |-> "success message"],
       [patterns |-> {Holds("button"), Holds("btn")},
        result |-> "button label"],
       [patterns |-> {Holds("alert"), Holds("dialog"), Holds("message")},
        result |-> "prompt message"],
       [patterns |-> {Holds("nav"), Holds("tab"), Holds("menu")},
        result |-> "navigation menu"] >>

CategoryRules ==
    << [patterns |-> {Holds("usagedescription"), BeginsWith("ns")},
        result |-> "system_permission"],
       [patterns |-> {BeginsWith("cfbundle")}, result |-> "app_metadata"],
       [patterns |-> {Holds("widget")}, result |-> "widget_ui"],
       [patterns |-> {Holds("button"), Holds("label")}, result |-> "ui_element"],
       [patterns |-> {Holds("error"), Holds("alert")}, result |-> "user_message"] >>

\* C15: infer_key_meaning returns the meaning of the table for a key of the
\* table; for any other key it returns the result of the first rule, in the
\* order of MeaningRules, that the lower-cased key matches, and no meaning when
\* no rule matches.
C15_MeaningFirstMatch ==
    call.op = "infer_key_meaning" =>
        LET curated == { e \in KeyMeaningEntries : Chars(e[1]) = call.key }
        IN  IF curated # {}
            THEN ret.val = { e[2] : e \in curated }
            ELSE ret.val = FirstMatch(MeaningRules, to_lowercase(call.key))

\* infer_key_meaning was called on a key that is not in the table and that
\* matches more than one rule
C15_Witness ==
    /\ call.op = "infer_key_meaning"
    /\ call.key \notin DOMAIN KEY_MEANINGS
    /\ MatchCount(MeaningRules, to_lowercase(call.key)) > 1
    /\ ret.val # {}

----------------------------------------------------------------------------
\* C17: a load that follows a save made without mutation succeeds and gives
\* a document equal to the one that was loaded before: same source language,
\* version, keys, comments, flags, localizations and string units.
C17_RoundTrip ==
    [][(call.op = "save" /\ ret.ok /\ call'.op = "load")
        => (ret'.ok /\ data' = data)]_vars

\* a file that save wrote without two members of an entry, its comment and
\* its localizations, was loaded
C17_Witness ==
    /\ call.op = "load"
    /\ ret.ok
    /\ call.file.content = to_string_pretty(data)
    /\ \E k \in DOMAIN data.strings :
          serialize_LocalizationEntry(data.strings[k]) = JObject(<< >>)

----------------------------------------------------------------------------
\* the file that load was called on holds a catalog that can be read
Loadable(file) == file.readable /\ from_str(file.content).ok

\* C18: load fails with IoError on a file that cannot be read and with
\* FileFormatError on a content that is not a catalog; in a translate run a
\* failed load ends the run with that error, with no backup made, no document
\* in memory and the file as it was.
C18_FailedLoadAborts ==
    (call.op = "load" /\ ~Loadable(call.file)) =>
        LET kind == IF call.file.readable THEN "FileFormatError" ELSE "IoError"
        IN  /\ ~load(call.file).ok
            /\ load(call.file).err.kind = kind
            /\ pc = "done"
            /\ exit.status = "Err"
            /\ exists(call.file) => exit.err.kind = kind
            /\ backups = << >>
            /\ disk = call.file
            /\ DOMAIN data = {}

\* a run has ended on a file whose content is not a catalog
C18_Witness ==
    /\ call.op = "load"
    /\ pc = "done"
    /\ call.file.readable
    /\ exit.status = "Err"
    /\ exit.err.kind = "FileFormatError"
    /\ backups = << >>

\* a backup file that holds a whole catalog exists
BackedUp ==
    /\ backups # << >>
    /\ from_str(backups[Len(backups)]).ok

\* C19: every step of a run that changes the loaded document or the catalog
\* file is taken when a backup exists and create_backup is behind; when
\* create_backup fails the run ends with an error, the file and the document
\* as they were; a run that has ended takes no step.
C19_BackupBeforeMutation ==
    [][/\ ((DOMAIN data # {} /\ data' # data) \/ disk' # disk)
            => (BackedUp /\ pc \notin {"start", "backup"})
       /\ (pc = "backup" /\ pc' = "done")
            => (exit'.status = "Err" /\ disk' = disk /\ data' = data)
       /\ pc # "done"]_vars

\* a run has ended well with a file that differs from its backup
C19_Witness ==
    /\ pc = "done"
    /\ exit.status = "Ok"
    /\ BackedUp
    /\ disk.content # backups[1]

\* the localization of the key in the catalog the file holds
Saved(key, lang) == from_str(disk.content).val.strings[key].localizations[lang]

\* the entry of the key in the backup
BackupEntry(key) == from_str(backups[1]).val.strings[key]

\* every result of the batch is in the file: the translation of a key that
\* succeeded, the entry of the backup for a key that failed
ResultsSaved ==
    \A i \in 1..Len(results) :
        IF results[i].ok
        THEN /\ args.language \in
                  DOMAIN from_str(disk.content).val.strings[results[i].key].localizations
             /\ Saved(results[i].key, args.language).string_unit
                  = Some(StringUnit("translated", results[i].val))
        ELSE from_str(disk.content).val.strings[results[i].key]
                  = BackupEntry(results[i].key)

\* C20: in batch and auto translation the loop over the keys goes on after
\* every key, so that the run reaches the save prompt with one result for
\* every key; when the user confirms and the save succeeds, every key that
\* succeeded has its translation in the file and every key that failed has
\* the entry it had.
C20_FailedKeysDoNotStopRun ==
    /\ call.op = "translate_with_context" => pc = "batch"
    /\ call.op = "batch_confirm" =>
          /\ Len(results) = Len(batch)
          /\ \A i \in 1..Len(results) : results[i].key = batch[i]
    /\ (call.op = "batch_confirm" /\ call.proceed = "yes"
            /\ (pc = "done" => exit.status = "Ok")) => ResultsSaved

\* the results of a batch that was confirmed and saved are in the file
C20_ConfirmedResultsSaved ==
    (call.op = "batch_confirm" /\ call.proceed = "yes"
        /\ (pc = "done" => exit.status = "Ok")) => ResultsSaved

----------------------------------------------------------------------------
\* the menu step that was taken last went to this arm of the match
TookArm(arm) == call.op = "menu" /\ "arm" \in DOMAIN call /\ call.arm = arm

\* the catalog file holds the document that is in memory
Persisted == load(disk).ok /\ load(disk).data = data

\* C21: "Save and exit" ends the run with Ok, and a run that has ended calls
\* the translator no more; whenever the menu is shown, and when the run ends
\* by "Save and exit", the document in memory is the document of the file.
C21_SaveAndExitLosesNothing ==
    /\ TookArm("save_and_exit") => (pc = "done" /\ exit = ExitOk)
    /\ (pc = "menu" \/ TookArm("save_and_exit")) => Persisted

\* the run has ended by "Save and exit" after a change of the document
C21_Witness ==
    /\ TookArm("save_and_exit")
    /\ pc = "done"
    /\ data # from_str(backups[1]).val
    /\ Persisted

----------------------------------------------------------------------------
\* one of the two functions of the translator was called
Translating == call.op \in {"translate_text", "translate_with_context"}

\* C22: on every response, translate_text and translate_with_context return
\* an error or a translation that is not empty; they end in no other way.
C22_TranslationOrError ==
    Translating =>
        \/ ret.tag = "Err"
        \/ ret.tag = "Ok" /\ ~is_empty(ret.val)

\* what holds of the two functions: a panic on a content that is one quote
\* once trimmed, and an error or a translation that is not empty otherwise
C22_PanicsOnlyOnOneQuote ==
    Translating =>
        IF ret.tag = "Panic"
        THEN /\ call.response.success
             /\ call.response.choices # << >>
             /\ trim(call.response.choices[1]) = <<Quote>>
        ELSE \/ ret.tag = "Err"
             \/ ret.tag = "Ok" /\ ~is_empty(ret.val)

----------------------------------------------------------------------------
\* the translate command was started and the configuration was loaded
Resolved == call.op = "translate" /\ args.config_load.ok

\* the configuration could be written where the command writes it
ConfigWritten == ret.status = "Ok" \/ ret.err # "config"

\* C23: without --api-key the translator gets the key of the environment
\* variable OPENROUTER_API_KEY; without --api-key and without the variable
\* the command fails with "No API key found" and creates no translator.
C23_KeyFromEnvironment ==
    (Resolved /\ ConfigWritten /\ args.command_line.api_key = None) =>
        IF args.env # None
        THEN /\ ret.status = "Ok"
             /\ Unwrap(ret.translator).api_key = Unwrap(args.env)
        ELSE /\ ret.status = "Err"
             /\ ret.err = "No API key found"
             /\ ret.translator = None

\* what the code does: the key is the one of the command line, else the one
\* of the configuration, which is empty when there is none; the environment
\* is not read and the command never fails for a missing key
C23_KeyFromConfiguration ==
    (Resolved /\ ConfigWritten) =>
        /\ ret.status = "Ok"
        /\ Unwrap(ret.translator).api_key =
              IF args.command_line.api_key # None
              THEN Unwrap(args.command_line.api_key)
              ELSE IF args.config_load.val = None THEN ""
              ELSE Unwrap(args.config_load.val).api_key

\* C25: every setting given on the command line (api key, base URL, model,
\* language) is the effective one, whatever the configuration holds and also
\* when the value given is the built-in default.
C25_CommandLineFirst ==
    (Resolved /\ ret.status = "Ok") =>
        LET given == args.command_line
            translator == Unwrap(ret.translator)
        IN  /\ given.api_key # None => translator.api_key = Unwrap(given.api_key)
            /\ given.base_url # None
                  => translator.base_url = Unwrap(given.base_url)
            /\ given.model # None => translator.model = Unwrap(given.model)
            /\ given.language # None => ret.language = given.language

\* what the code does: a value given on the command line is the effective
\* one unless it is the built-in default of the base URL or of the model
C25_CommandLineFirstUnlessDefault ==
    (Resolved /\ ret.status = "Ok") =>
        LET given == args.command_line
            translator == Unwrap(ret.translator)
        IN  /\ given.api_key # None => translator.api_key = Unwrap(given.api_key)
            /\ (given.base_url # None /\ given.base_url # Some(DefaultBaseUrl))
                  => translator.base_url = Unwrap(given.base_url)
            /\ (given.model # None /\ given.model # Some(DefaultModel))
                  => translator.model = Unwrap(given.model)
            /\ given.language # None => ret.language = given.language

----------------------------------------------------------------------------
\* the index of a selected key in the list of the selected keys
IndexOf(key) == CHOOSE i \in 1..Len(selected) : selected[i] = key

\* the keys the translator was called for are selected keys, each one once,
\* in the order of the selected list
AskedInOrder ==
    /\ \A i \in 1..Len(asked) : asked[i] \in Range(selected)
    /\ \A i, j \in 1..Len(asked) :
          i < j => IndexOf(asked[i]) < IndexOf(asked[j])

\* the calls of the batch so far are the first keys of the slice, in its order
BatchInOrder ==
    pc = "batch" =>
        /\ Len(results) <= Len(batch)
        /\ \A i \in 1..Len(results) :
              /\ results[i].key = batch[i]
              /\ asked[Len(asked) - Len(results) + i] = batch[i]

\* C24: the translator is called for the keys in the order in which they
\* were selected, once per key at most: batch_translate_keys calls it for the
\* keys of its slice in the order of the slice, and the index of
\* interactive_translate never goes back.
C24_CallsInSelectedOrder ==
    [][AskedInOrder' /\ BatchInOrder' /\ current' >= current]_vars

\* an interactive run has ended after calls for two keys or more
C24_Witness ==
    /\ pc = "done"
    /\ ~args.auto
    /\ Len(asked) >= 2
    /\ current >= 2

----------------------------------------------------------------------------
\* the action that a label of the menu announces
ActionOf(label) ==
    IF label = "Translate" THEN "translate"
    ELSE IF label = "Mark as no translation needed" THEN "mark"
    ELSE IF label = "Batch translate next" THEN "batch_default"
    ELSE IF label = "Batch translate next custom number" THEN "batch_custom"
    ELSE IF label = "Skip" THEN "skip"
    ELSE IF label = "Save and exit" THEN "save_and_exit"
    ELSE "none"

\* with remaining keys after the current one, every index of the menu goes to
\* the arm of the action its label announces
MenuMapped(remaining) ==
    LET shown == choices(remaining)
    IN  /\ Len(shown) = IF remaining > 0 THEN 6 ELSE 4
        /\ \A selection \in 0..(Len(shown) - 1) :
              /\ match_arm(selection, remaining > 0) # "unreachable"
              /\ match_arm(selection, remaining > 0)
                    = ActionOf(shown[selection + 1])

\* C26: whenever the menu is shown, it has six entries when keys remain after
\* the current one and four on the last key, every index it can return goes
\* to the arm of the action whose label is shown at that index and none goes
\* to unreachable!(); the arm taken by a menu step is the one of its label.
C26_MenuIndexMapsToLabel ==
    /\ pc = "menu" => MenuMapped(remaining_at_menu)
    /\ (call.op = "menu" /\ "arm" \in DOMAIN call) =>
          LET remaining == Len(selected) - call.current - 1
          IN  /\ call.arm # "unreachable"
              /\ call.arm = ActionOf(choices(remaining)[call.selection + 1])

\* "Skip" was taken at index 2 of the menu of the last key, and the menu of
\* six entries was shown before in the run
C26_Witness ==
    /\ TookArm("skip")
    /\ call.selection = 2
    /\ Len(selected) - call.current - 1 = 0
    /\ call.current >= 1

\* C27: in interactive_translate the cursor never exceeds the number of
\* selected keys, and the slice keys[current..current + size] of a batch is
\* in bounds for every default and custom batch size: no batch entry of the
\* menu ends in the panic of the slice, and the batch that starts is the size
\* keys from the current one, size being at most the number of keys from the
\* current one to the end.
BatchArms == {"batch_default", "batch_custom"}

BatchMenuStep ==
    /\ pc = "menu"
    /\ call'.op = "menu"
    /\ "arm" \in DOMAIN call'
    /\ call'.arm \in BatchArms

C27_BatchSliceInBounds ==
    [][/\ current' <= Len(selected')
       /\ BatchMenuStep =>
            /\ exit' # ExitPanic
            /\ pc' = "batch" =>
                 /\ current + Len(batch') <= Len(selected)
                 /\ batch' = SubSeq(selected, current + 1,
                                    current + Len(batch'))
                 /\ Len(batch') = min(args'.batch_size,
                                      Len(selected) - current)]_vars

\* a batch size above the number of keys that remain was capped
C27_Witness ==
    /\ pc = "batch"
    /\ ~args.auto
    /\ call.op = "menu"
    /\ args.batch_size > Len(selected) - current
    /\ Len(batch) = Len(selected) - current
    /\ Len(batch) > 0

\* C28: interactive_translate terminates: every menu action other than a
\* declined batch confirmation either exits the loop or advances the cursor
\* by at least one key (so the loop ends after at most as many accepted
\* actions as there are selected keys). An action that comes back to the menu
\* has moved the cursor forward, whether it is one step of the menu or a
\* batch that has returned.
DeclinedBatch == BatchMenuStep /\ pc' = "menu" /\ current' = current

C28_AcceptedActionsAdvance ==
    [][/\ (pc = "menu" /\ pc' = "menu") =>
            (current' > current \/ DeclinedBatch)
       /\ (pc = "batch" /\ pc' = "menu") => current' > current]_vars

\* what holds of the loop: an accepted batch moves the cursor by the number
\* of its keys, which is zero when the batch size of the configuration is
\* zero, and every other action that comes back to the menu moves it by one
C28_AdvancesByBatchLength ==
    [][/\ (pc = "menu" /\ pc' = "menu") =>
            (current' = current + 1 \/ DeclinedBatch)
       /\ (pc = "batch" /\ ~args.auto
               /\ (pc' = "menu" \/ (pc' = "done" /\ exit' = ExitOk))) =>
            current' = current + Len(batch)
       /\ (pc = "menu" /\ pc' = "batch") =>
            Len(batch') = min(args'.batch_size, Len(selected) - current)]_vars

\* an accepted batch of no key has come back to the menu at the same key
C28_Witness ==
    /\ pc = "menu"
    /\ call.op = "batch_confirm"
    /\ batch = << >>
    /\ args.batch_size = 0

\* C29: when the user declines "Save successful translations" in
\* batch_translate_keys, neither the document in memory nor the file on disk
\* is changed by that batch (the calls of the batch change neither, and the
\* answer no changes neither); in interactive mode the cursor still moves
\* past the batch, so its keys are not offered again.
DeclinesSave ==
    /\ pc = "batch"
    /\ call'.op = "batch_confirm"
    /\ call'.proceed = "no"

C29_DeclinedSaveChangesNothing ==
    [][/\ (pc = "batch" /\ call'.op = "translate_with_context") =>
            (data' = data /\ disk' = disk)
       /\ DeclinesSave =>
            /\ data' = data
            /\ disk' = disk
            /\ exit' \in {exit, ExitOk}
            /\ ~args.auto =>
                 /\ current' = current + Len(batch)
                 /\ pc' = "menu" =>
                      \A i \in 1..Len(batch) :
                         batch[i] # selected[current' + 1]]_vars

\* the save of a batch with a translation that succeeded was declined in
\* interactive mode, and the cursor is past the batch
C29_Witness ==
    /\ call.op = "batch_confirm"
    /\ call.proceed = "no"
    /\ ~args.auto
    /\ Len(batch) > 0
    /\ \E i \in 1..Len(results) : results[i].ok
    /\ current >= Len(batch)

\* C30: the clean command deletes a file only after the user has confirmed
\* the deletion, and only files whose name contains ".xcstrings.backup_" and
\* that were listed: all of them, or exactly the ones selected (those whose
\* removal failed stay); cancel, an empty selection and a declined
\* confirmation delete no file; the catalog file is never deleted.
IsCatalog(path) ==
    LET name == file_name(path)
        extension == Chars(".xcstrings")
    IN  /\ Len(name) >= Len(extension)
        /\ SubSeq(name, Len(name) - Len(extension) + 1, Len(name)) = extension

\* the files the step of the menu was asked to delete
AskedToDelete ==
    { backups[i] :
        i \in IF call'.selection = "0" THEN DOMAIN backups
              ELSE IF call'.selection = "1" THEN selected'
              ELSE {} }

C30_CleanDeletesOnlyConfirmedBackups ==
    [][/\ disk' \subseteq disk
       /\ \A path \in disk : IsCatalog(path) => path \in disk'
       /\ disk' # disk =>
            /\ call'.op = "clean_menu"
            /\ call'.confirm = "yes"
            /\ disk \ disk' \subseteq AskedToDelete
            /\ \A path \in disk \ disk' :
                  contains(file_name(path), ".xcstrings.backup_")
       /\ (call'.op = "clean_menu" /\ call'.confirm = "yes"
               /\ call'.failed = {}) =>
            disk \ disk' = AskedToDelete
       /\ (call'.op = "clean_menu" /\ call'.confirm # "yes") =>
            disk' = disk]_vars

\* one of two listed backups was selected and deleted after the
\* confirmation; the other one and a catalog below the directory are there
C30_Witness ==
    /\ pc = "done"
    /\ call.op = "clean_menu"
    /\ call.selection = "1"
    /\ call.confirm = "yes"
    /\ \E i \in selected : backups[i] \notin disk
    /\ \E i \in DOMAIN backups : i \notin selected /\ backups[i] \in disk
    /\ \E path \in disk : IsCatalog(path) /\ below(args.directory, path)

====
